---- MODULE Spec2Model ----
(***************************************************************************)
(* State-machine model of three parts of InfraGPT:                         *)
(*   - the interactive shell agent of the CLI (cli/src/infragpt/agent.py,  *)
(*     tools.py): session loop, model queries, tool-call confirmation,     *)
(*     command execution, conversation context     -> SpecShell            *)
(*   - the Agent Service RPC path (services/agent: grpc/handlers.py,       *)
(*     agents/registry.py, agents/main_agent.py, integrations/)            *)
(*                                                 -> SpecService          *)
(*   - the Agent Service tool registry (services/agent/src/tools)          *)
(*                                                 -> SpecTools            *)
(* Each part has its own variables, Init and Next; Spec composes them.     *)
(***************************************************************************)
EXTENDS Integers, Sequences, FiniteSets, TLC

(***************************************************************************)
(* Bounds of the model                                                     *)
(***************************************************************************)
\* model queries (model.stream calls) in one interactive session
MaxQueries == 3
\* tool calls the model returns in one response
MaxBatch == 2
\* ProcessMessage calls the handler receives
MaxCalls == 2
\* tools that may be registered in the tool registry
MaxTools == 2
\* containers one CLI process may create
MaxContainers == 2
\* history entries logged (attempts included)
MaxEntries == 3
\* largest time-to-live of the response cache, in clock ticks
MaxTtl == 2
\* clock ticks of the response cache
MaxTime == 3
\* commands in one generated batch
MaxCommands == 3
\* channels one gRPC client may create
MaxChannels == 5
\* add_message calls on one ConversationContext
MaxAdds == 6
\* entries written to the history file with chosen data
MaxWrites == 2

(***************************************************************************)
(* Program constants                                                       *)
(***************************************************************************)
\* ConversationContext.__init__(max_messages=5)
max_messages == 5

VARIABLES
    \* ---- shell agent (ModernShellAgent, ConversationContext) ----
    pc,             \* where the session is: "input", "stream", "tool_loop",
                    \* "confirm", "tool_confirm", "exec", "done"
    should_exit,    \* ModernShellAgent.should_exit
    messages,       \* ConversationContext.messages
    tool_calls,     \* the batch _handle_tool_calls iterates over
    idx,            \* position of the for-loop in tool_calls (1-based)
    queries,        \* model queries (model.stream calls) made in the session
    nextId,         \* next fresh tool-call id the model hands out
    \* ---- observation of the current batch and input (history variables) ----
    answers,        \* tool-call id -> the answer read at the agent's prompt
    executed,       \* tool-call ids handed to executor.execute_command, in order
    toolAppends,    \* tool-call id -> number of 'tool' messages appended for it
    prompted,       \* tool-call ids for which the agent's prompt was shown
    logged,         \* _log_interaction calls made for the current user input
    made,           \* tool calls the model returned for the current user input
    log_entry,      \* the history entry last written for the current user input
    \* ---- Agent Service: handler, agent system ----
    agent_system,   \* AgentServiceHandler.agent_system: NoSystem or its state
                    \* [initialized, main_agent] (_initialized, main_agent set)
    cpc,            \* per call: "idle", "process", "reply", "sending", "returned"
    agent_response, \* per call: the AgentResponse of process_request, or NoResponse
    rpc_response,   \* per call: what ProcessMessage returned, or NoResponse
    standalone,     \* an AgentSystem used directly (as the tests do)
    systems_constructed, \* history: AgentSystem objects the handler has built
    \* ---- observation of the Agent Service (history variables) ----
    sends,          \* per call: number of client.send_reply attempts started
    sendState,      \* per call: "none", "inflight", "done"
    stages,         \* per call: the stages in which an exception was raised
    route,          \* per call: the can_handle answers and the process outcome
    init_returned,  \* standalone.initialize() has returned normally
    direct,         \* the last direct process_request call on standalone
    \* ---- ToolRegistry ----
    registry_tools,        \* names in ToolRegistry._tools
    registry_initialized,  \* ToolRegistry._initialized
    is_initialized,        \* per tool name: the registered tool's _is_initialized
    init_failed,           \* history: tools whose latest initialize() failed
    last_init,             \* history: the last ToolRegistry.initialize() call
    last_exec,             \* history: the last ToolRegistry.execute_tool() call
    \* ---- sandbox container executor ----
    executor,       \* container._executor is not None
    container,      \* the runner's self.container: 0 (None) or a container id
    client,         \* the runner's self.client is not None
    cancelled,      \* the runner's self.cancelled
    containers,     \* containers of this process that exist in docker
    containers_created,  \* number of containers this process has created
    last_run,       \* history: the last execute_command call
    \* ---- history log ----
    history_exists, \* history.jsonl exists
    history_lines,  \* the lines of history.jsonl, oldest first
    history_clock,  \* datetime.now() as the loggers read it
    history_ids,    \* entries given an id so far (uuid4 is fresh each time)
    last_history,   \* history: the last history operation and its result
    \* ---- LLM response cache ----
    cache_ttl,      \* LLMResponseCache.ttl
    cache_now,      \* time.time()
    cache_files,    \* per cache key: the file <key>.json in the cache directory
    cache_stored,   \* history: per key, the response last stored by set
    last_cache_get, \* history: the last LLMResponseCache.get call
    \* ---- configuration ----
    config_file,    \* config.yaml as it parses
    config_data,    \* Config._config
    config_loaded,  \* Config._loaded
    last_config,    \* history: the last load / get_credentials and its result
    \* ---- command batch (handle_command_result) ----
    batch_pc,       \* "returned", "action" (action prompt), "continue" (prompt)
    batch_n,        \* len(processed_commands)
    batch_fallback, \* context['is_error'] of the splitter for this response
    batch_i,        \* i of the action loop (0-based)
    CLIPBOARD_AVAILABLE, \* whether pyperclip imported
    offered,        \* history: indices whose action prompt was shown
    commands_run,   \* history: index -> outcome of os.system for it
    asked,          \* history: indices after which the continue prompt was shown
    refused,        \* history: index after which the user answered no
    \* ---- gRPC client (BackendClient / InfraGPTClient) ----
    client_pc,      \* "outside" the with-block, "inside" it, "exited"
    grpc_channel,   \* self._channel: NoChannel or a channel number
    grpc_stub,      \* self._client: NoChannel or the channel it is bound to
    open_channels,  \* channels created and not closed
    channels_created, \* channels created so far
    last_exit,      \* history: how the last with-block ended
    last_send,      \* history: outcome of the last send_reply in the block
    \* ---- ConversationContext on its own ----
    ctx_messages,   \* ConversationContext.messages
    ctx_system_message, \* ConversationContext.system_message (<<>> is None)
    ctx_added,      \* history: the messages added, in order
    \* ---- history data and its redaction ----
    written_data    \* the entries written: logger, data given, data stored

shellVars == <<pc, should_exit, messages, tool_calls, idx, queries, nextId,
               answers, executed, toolAppends, prompted, logged, made, log_entry>>

(***************************************************************************)
(* Strings read at a prompt, as sequences of one-character strings         *)
(***************************************************************************)
\* str.lower() on one character
LowerChar(c) ==
    CASE c = "Y" -> "y"
      [] c = "N" -> "n"
      [] c = "E" -> "e"
      [] c = "S" -> "s"
      [] c = "O" -> "o"
      [] c = "T" -> "t"
      [] c = "K" -> "k"
      [] OTHER -> c

\* str.lower()
Lower(s) == [i \in 1..Len(s) |-> LowerChar(s[i])]

RECURSIVE LStrip(_)
LStrip(s) == IF s # <<>> /\ Head(s) = " " THEN LStrip(Tail(s)) ELSE s

RECURSIVE RStrip(_)
RStrip(s) ==
    IF s # <<>> /\ s[Len(s)] = " " THEN RStrip(SubSeq(s, 1, Len(s) - 1)) ELSE s

\* str.strip()
Strip(s) == RStrip(LStrip(s))

\* console.input(...).strip().lower()  (agent.py:325, tools.py:172)
Normalize(raw) == Lower(Strip(raw))

\* the lines a user may type at a confirmation prompt
RawAnswers ==
    { <<>>, <<"y">>, <<" ", "Y", " ">>, <<"n">>, <<"N", " ">>, <<"y", "e", "s">>,
      <<"q">> }

\* Ctrl+C / Ctrl+D at a prompt: input() raises KeyboardInterrupt / EOFError
Interrupt == <<"^">>

(***************************************************************************)
(* Shell agent: conversation context                                       *)
(***************************************************************************)
\* a Message of the conversation: role, tool_calls (ids), tool_call_id
Msg(role, calls, id) == [role |-> role, tool_calls |-> calls, tool_call_id |-> id]

\* the last n elements of a sequence: s[-n:]
LastN(s, n) == IF Len(s) > n THEN SubSeq(s, Len(s) - n + 1, Len(s)) ELSE s

\* add_message that never trims the window
add_message_NoTrim(msgs, m) == Append(msgs, m)

\* ConversationContext.add_message for a non-system role: append, then trim
add_message(msgs, m) ==
    LET appended == Append(msgs, m)
    IN  IF Len(appended) > max_messages THEN LastN(appended, max_messages)
        ELSE appended

(***************************************************************************)
(* Shell agent: what the model may return                                  *)
(***************************************************************************)
\* names of the tools bound to the model: [t.name for t in self.tools]
ToolNames == {"execute_shell_command"}

\* shapes of a tool call in a model response (name, args.command)
ToolCallShapes ==
    { [name |-> "execute_shell_command", command |-> "ls"],
      [name |-> "execute_shell_command", command |-> ""],
      [name |-> "", command |-> "ls"] }

\* the tool-call lists of a model response, without their ids
Batches == UNION { [1..n -> ToolCallShapes] : n \in 0..MaxBatch }

\* a batch with fresh ids first, first+1, ...
WithIds(batch, first) ==
    [i \in 1..Len(batch) |->
        [name |-> batch[i].name, command |-> batch[i].command, id |-> first + i - 1]]

BatchIds(calls) == { calls[i].id : i \in 1..Len(calls) }

\* the tool call the for-loop is at
CurrentCall == tool_calls[idx]

(***************************************************************************)
(* Shell agent: the decisions on a confirmation answer                     *)
(***************************************************************************)
\* agent.py:326  user_response == "n"
IsReject(r) == r = <<"n">>

\* the invalid-input branch left out: whatever is not "n" is taken as consent
IsInvalid_AnythingGoes(r) == FALSE

\* agent.py:330  user_response not in ["", "y"]
IsInvalid(r) == r \notin { <<>>, <<"y">> }

\* tools.py:178  user_input in ["y", "yes", ""]
ToolAccepts(r) == r \in { <<"y">>, <<"y", "e", "s">>, <<>> }

(***************************************************************************)
(* Shell agent: the history entry of an interaction                        *)
(***************************************************************************)
\* history.py INTERACTION_FIELD_ALLOWLIST.get(interaction_type, [])
INTERACTION_FIELD_ALLOWLIST(interaction_type) ==
    IF interaction_type = "agent_conversation_v2"
    THEN {"user_input", "assistant_response", "model", "timestamp"}
    ELSE {}

\* history.log_interaction: the entry written for the data, of which only
\* the allow-listed fields of the interaction type are kept
history_entry(interaction_type, data) ==
    LET allowed_fields == INTERACTION_FIELD_ALLOWLIST(interaction_type)
        safe_data == IF allowed_fields # {} THEN data.fields \cap allowed_fields
                     ELSE {}
    IN  [type |-> interaction_type,
         fields |-> safe_data,
         tool_calls |-> IF "tool_calls" \in safe_data THEN data.tool_calls
                        ELSE <<>>]

\* ModernShellAgent._log_interaction(user_input, response, tool_calls)
agent_log_interaction(calls) ==
    history_entry("agent_conversation",
        [fields |-> {"user_input", "assistant_response", "tool_calls",
                     "model", "timestamp"},
         tool_calls |-> [i \in 1..Len(calls) |->
                            [name |-> calls[i].name,
                             arguments |-> calls[i].command]]])

\* no entry written yet for the current user input
NoEntry == [type |-> "", fields |-> {}, tool_calls |-> <<>>]

(***************************************************************************)
(* Shell agent: initial state (after ModernShellAgent.__init__)            *)
(***************************************************************************)
ShellInit ==
    /\ pc = "input"
    /\ should_exit = FALSE
    /\ messages = <<>>
    /\ tool_calls = <<>>
    /\ idx = 1
    /\ queries = 0
    /\ nextId = 1
    /\ answers = <<>>
    /\ executed = <<>>
    /\ toolAppends = <<>>
    /\ prompted = {}
    /\ logged = 0
    /\ made = 0
    /\ log_entry = NoEntry

\* what was read at the agent's prompt, as the user meant it
AnswerClass(raw) ==
    IF raw = Interrupt THEN "interrupt"
    ELSE IF Normalize(raw) \in { <<>>, <<"y">> } THEN "yes"
    ELSE IF Normalize(raw) = <<"n">> THEN "no"
    ELSE "other"

\* number of 'tool' messages appended so far for a tool-call id
Appends(id) == IF id \in DOMAIN toolAppends THEN toolAppends[id] ELSE 0

\* the agent appends one 'tool' message for the current call and moves on
AppendToolResult ==
    /\ messages' = add_message(messages, Msg("tool", {}, CurrentCall.id))
    /\ toolAppends' = (CurrentCall.id :> Appends(CurrentCall.id) + 1) @@ toolAppends
    /\ idx' = idx + 1
    /\ pc' = "tool_loop"

(***************************************************************************)
(* Shell agent: actions                                                    *)
(***************************************************************************)
\* _signal_handler: SIGINT sets the exit flag, whatever the session is doing
signal_handler ==
    /\ pc # "done"
    /\ should_exit' = TRUE
    /\ UNCHANGED <<pc, messages, tool_calls, idx, queries, nextId, answers,
                   executed, toolAppends, prompted, logged, made, log_entry>>

\* run_interactive_session: the prompt returns nothing (empty line, Ctrl+C,
\* Ctrl+D) or should_exit is set: the loop breaks
get_user_input_quit ==
    /\ pc = "input"
    /\ \E line \in { <<>>, <<"q">>, Interrupt } :
        LET user_input == IF line = Interrupt THEN <<>> ELSE line
        IN  user_input = <<>> \/ should_exit
    /\ pc' = "done"
    /\ UNCHANGED <<should_exit, messages, tool_calls, idx, queries, nextId,
                   answers, executed, toolAppends, prompted, logged, made, log_entry>>

\* run_interactive_session: a line is read, added to the context as the user
\* message and handed to _process_user_input
get_user_input ==
    /\ pc = "input"
    /\ ~should_exit
    /\ queries < MaxQueries
    /\ messages' = add_message(messages, Msg("user", {}, 0))
    /\ logged' = 0
    /\ made' = 0
    /\ log_entry' = NoEntry
    /\ pc' = "stream"
    /\ tool_calls' = <<>>
    /\ idx' = 1
    /\ answers' = <<>>
    /\ executed' = <<>>
    /\ toolAppends' = <<>>
    /\ prompted' = {}
    /\ UNCHANGED <<should_exit, nextId, queries>>

\* _process_user_input: model.stream raises; the handler prints and returns
process_user_input_error ==
    /\ pc = "stream"
    /\ queries' = queries + 1
    /\ pc' = IF should_exit THEN "done" ELSE "input"
    /\ UNCHANGED <<should_exit, messages, tool_calls, idx, nextId, answers,
                   executed, toolAppends, prompted, logged, made, log_entry>>

\* _process_user_input: the model answers without tool calls: the assistant
\* message is appended, the loop breaks and the interaction is logged
process_user_input_final ==
    /\ pc = "stream"
    /\ queries' = queries + 1
    /\ messages' = add_message(messages, Msg("assistant", {}, 0))
    /\ logged' = logged + 1
    /\ log_entry' = agent_log_interaction(<<>>)
    /\ pc' = IF should_exit THEN "done" ELSE "input"
    /\ UNCHANGED made
    /\ UNCHANGED <<should_exit, tool_calls, idx, nextId, answers, executed,
                   toolAppends, prompted>>

\* _process_user_input: the model answers with tool calls; _handle_tool_calls
\* appends the assistant message and enters its for-loop
process_user_input_tools ==
    /\ pc = "stream"
    /\ queries + 1 < MaxQueries
    /\ \E batch \in Batches \ { <<>> } :
        LET calls == WithIds(batch, nextId)
        IN  /\ tool_calls' = calls
            /\ nextId' = nextId + Len(batch)
            /\ made' = made + Len(batch)
            /\ messages' = add_message(messages, Msg("assistant", BatchIds(calls), 0))
    /\ queries' = queries + 1
    /\ idx' = 1
    /\ pc' = "tool_loop"
    /\ answers' = <<>>
    /\ executed' = <<>>
    /\ toolAppends' = <<>>
    /\ prompted' = {}
    /\ UNCHANGED <<should_exit, logged, log_entry>>

\* _handle_tool_calls: the for-loop is over (exhausted, or should_exit at its
\* head); _process_user_input breaks and logs when should_exit, else it
\* queries the model again
handle_tool_calls_end ==
    /\ pc = "tool_loop"
    /\ idx > Len(tool_calls) \/ should_exit
    /\ IF should_exit
       THEN /\ logged' = logged + 1
            /\ log_entry' = agent_log_interaction(<<>>)
            /\ pc' = "done"
       ELSE /\ pc' = "stream"
            /\ UNCHANGED <<logged, log_entry>>
    /\ UNCHANGED made
    /\ UNCHANGED <<should_exit, messages, tool_calls, idx, queries, nextId,
                   answers, executed, toolAppends, prompted>>

\* _handle_tool_calls: a tool call with no or an unknown name, or no command
handle_tool_calls_skip ==
    /\ pc = "tool_loop"
    /\ idx <= Len(tool_calls)
    /\ ~should_exit
    /\ \/ CurrentCall.name = ""
       \/ CurrentCall.name \notin ToolNames
       \/ CurrentCall.command = ""
    /\ idx' = idx + 1
    /\ UNCHANGED <<pc, should_exit, messages, tool_calls, queries, nextId,
                   answers, executed, toolAppends, prompted, logged, made, log_entry>>

\* _handle_tool_calls: the confirmation prompt Run "<command>"? (Y/n) is shown
handle_tool_calls_prompt ==
    /\ pc = "tool_loop"
    /\ idx <= Len(tool_calls)
    /\ ~should_exit
    /\ CurrentCall.name # ""
    /\ CurrentCall.name \in ToolNames
    /\ CurrentCall.command # ""
    /\ prompted' = prompted \cup {CurrentCall.id}
    /\ pc' = "confirm"
    /\ UNCHANGED <<should_exit, messages, tool_calls, idx, queries, nextId,
                   answers, executed, toolAppends, logged, made, log_entry>>

\* a decline that returns without setting should_exit: the caller queries again
handle_tool_calls_decline_NoFlag ==
    /\ pc = "confirm"
    /\ \E raw \in RawAnswers \cup {Interrupt} :
        /\ raw = Interrupt \/ IsReject(Normalize(raw))
        /\ answers' = (CurrentCall.id :> AnswerClass(raw)) @@ answers
    /\ pc' = "stream"
    /\ UNCHANGED <<should_exit, messages, tool_calls, idx, queries, nextId, executed,
                   toolAppends, prompted, logged, made, log_entry>>

\* _handle_tool_calls: the answer "n", or Ctrl+C / Ctrl+D, at the prompt:
\* should_exit is set and the method returns; _process_user_input breaks, logs
\* and returns; the session loop ends
handle_tool_calls_decline ==
    /\ pc = "confirm"
    /\ \E raw \in RawAnswers \cup {Interrupt} :
        /\ raw = Interrupt \/ IsReject(Normalize(raw))
        /\ answers' = (CurrentCall.id :> AnswerClass(raw)) @@ answers
    /\ should_exit' = TRUE
    /\ logged' = logged + 1
    /\ log_entry' = agent_log_interaction(<<>>)
    /\ pc' = "done"
    /\ UNCHANGED made
    /\ UNCHANGED <<messages, tool_calls, idx, queries, nextId, executed,
                   toolAppends, prompted>>

\* _handle_tool_calls: any other answer than "", "y", "n": "Invalid input.
\* Please enter 'y' or 'n'." is printed and the for-loop continues with the
\* next tool call
handle_tool_calls_invalid ==
    /\ pc = "confirm"
    /\ \E raw \in RawAnswers :
        /\ ~IsReject(Normalize(raw))
        /\ IsInvalid(Normalize(raw))
        /\ answers' = (CurrentCall.id :> AnswerClass(raw)) @@ answers
    /\ idx' = idx + 1
    /\ pc' = "tool_loop"
    /\ UNCHANGED <<should_exit, messages, tool_calls, queries, nextId,
                   executed, toolAppends, prompted, logged, made, log_entry>>

\* _handle_tool_calls: the answer is accepted; tool_func.invoke(tool_args)
\* enters execute_shell_command, which asks Execute this command? (Y/n)
handle_tool_calls_accept ==
    /\ pc = "confirm"
    /\ \E raw \in RawAnswers :
        /\ ~IsReject(Normalize(raw))
        /\ ~IsInvalid(Normalize(raw))
        /\ answers' = (CurrentCall.id :> AnswerClass(raw)) @@ answers
    /\ pc' = "tool_confirm"
    /\ UNCHANGED <<should_exit, messages, tool_calls, idx, queries, nextId,
                   executed, toolAppends, prompted, logged, made, log_entry>>

\* a cancellation that is dropped instead of recorded as the call's result
execute_shell_command_cancel_NoResult ==
    /\ pc = "tool_confirm"
    /\ \E raw \in RawAnswers \cup {Interrupt} :
        raw = Interrupt \/ ~ToolAccepts(Normalize(raw))
    /\ idx' = idx + 1
    /\ pc' = "tool_loop"
    /\ UNCHANGED <<should_exit, messages, tool_calls, queries, nextId, answers,
                   executed, toolAppends, prompted, logged, made, log_entry>>

\* execute_shell_command: the tool's own prompt is refused or interrupted; it
\* raises ToolExecutionCancelled, which _handle_tool_calls catches as Exception
\* and records as the call's 'tool' message "Error executing command: ..."
execute_shell_command_cancel ==
    /\ pc = "tool_confirm"
    /\ \E raw \in RawAnswers \cup {Interrupt} :
        raw = Interrupt \/ ~ToolAccepts(Normalize(raw))
    /\ AppendToolResult
    /\ UNCHANGED <<should_exit, tool_calls, queries, nextId, answers,
                   executed, prompted, logged, made, log_entry>>

\* execute_shell_command: accepted, but get_executor() or execute_command raises
\* before the command runs (no container started): the text "Failed to execute
\* command: ..." is returned and becomes the call's 'tool' message
execute_shell_command_unavailable ==
    /\ pc = "tool_confirm"
    /\ \E raw \in RawAnswers : ToolAccepts(Normalize(raw))
    /\ AppendToolResult
    /\ UNCHANGED <<should_exit, tool_calls, queries, nextId, answers,
                   executed, prompted, logged, made, log_entry>>

\* execute_shell_command: accepted; executor.execute_command(command) starts
execute_shell_command_run ==
    /\ pc = "tool_confirm"
    /\ \E raw \in RawAnswers : ToolAccepts(Normalize(raw))
    /\ executed' = Append(executed, CurrentCall.id)
    /\ pc' = "exec"
    /\ UNCHANGED <<should_exit, messages, tool_calls, idx, queries, nextId,
                   answers, toolAppends, prompted, logged, made, log_entry>>

\* execute_shell_command: the executor returns (exit code 0, another exit code,
\* or cancelled) and the text returned becomes the call's 'tool' message
execute_command_finish ==
    /\ pc = "exec"
    /\ \E outcome \in {"output", "nonzero", "cancelled"} : AppendToolResult
    /\ UNCHANGED <<should_exit, tool_calls, queries, nextId, answers,
                   executed, prompted, logged, made, log_entry>>

ShellNext ==
    \/ signal_handler
    \/ get_user_input_quit
    \/ get_user_input
    \/ process_user_input_error
    \/ process_user_input_final
    \/ process_user_input_tools
    \/ handle_tool_calls_end
    \/ handle_tool_calls_skip
    \/ handle_tool_calls_prompt
    \/ handle_tool_calls_decline
    \/ handle_tool_calls_invalid
    \/ handle_tool_calls_accept
    \/ execute_shell_command_cancel
    \/ execute_shell_command_unavailable
    \/ execute_shell_command_run
    \/ execute_command_finish

(***************************************************************************)
(* Shell agent: properties                                                 *)
(***************************************************************************)
\* the answer read at the agent's prompt for a tool call, "none" before it
AnswerOf(id) == IF id \in DOMAIN answers THEN answers[id] ELSE "none"

\* C1: the executor is handed a shell command only after an accepting answer
\* ("" or "y") was read at the agent's confirmation prompt for that same tool
\* call; no command of the model is executed without such an answer.
C1_ExecutedOnlyAfterAccept ==
    \A i \in 1..Len(executed) :
        /\ executed[i] \in prompted
        /\ AnswerOf(executed[i]) = "yes"

\* C1 witness: a command is running in the executor
C1_Witness == pc = "exec" /\ executed # <<>> /\ AnswerOf(CurrentCall.id) = "yes"

\* the user declined at the agent's prompt ("n", Ctrl+C or Ctrl+D)
Declined == \E id \in DOMAIN answers : answers[id] \in {"no", "interrupt"}

\* with should_exit set, a step starts no new work: the flag stays set, no
\* further tool call is prompted for, no model query and no user input is
\* started, and only a call whose prompt was already shown can be executed
NoNewWork ==
    /\ should_exit'
    /\ prompted' \subseteq prompted
    /\ pc' = "confirm" => pc = "confirm"
    /\ pc' = "stream" => pc = "stream"
    /\ pc' = "input" => pc = "input"
    /\ pc # "stream" => queries' = queries
    /\ \A i \in 1..Len(executed') : executed'[i] \in prompted

C3_InvalidAnswerAsksAgain ==
    [][(/\ pc = "confirm"
        /\ CurrentCall.id \notin DOMAIN answers
        /\ CurrentCall.id \in DOMAIN answers'
        /\ answers'[CurrentCall.id] = "other")
       => (/\ pc' = "confirm"
           /\ idx' = idx
           /\ should_exit' = should_exit
           /\ executed' = executed)]_shellVars

\* a tool call is between its accepting answer and its 'tool' message
InProgress(id) ==
    /\ pc \in {"tool_confirm", "exec"}
    /\ idx <= Len(tool_calls)
    /\ CurrentCall.id = id

\* C6: for every tool call accepted at the agent's prompt, exactly one 'tool'
\* message with that call's id is appended to the context before the for-loop
\* moves on, hence before the model is queried again; never more than one.
C6_OneToolMessagePerAcceptedCall ==
    \A id \in DOMAIN answers :
        answers[id] = "yes" =>
            /\ Appends(id) <= 1
            /\ InProgress(id) \/ Appends(id) = 1
            /\ ~InProgress(id) /\ pc = "tool_loop" /\ idx > 1 /\ tool_calls[idx - 1].id = id
                 => messages[Len(messages)] = Msg("tool", {}, id)

\* C6 witness: the model is about to be queried again after an accepted call
C6_Witness ==
    /\ pc = "stream"
    /\ \E id \in DOMAIN answers : answers[id] = "yes" /\ Appends(id) = 1

\* C17: when processing of a user input ends because the model returned no
\* further tool calls, one agent_conversation entry is logged for that input
\* and its tool_calls field lists the tool calls made while processing it
\* (one {name, arguments} item per tool call the model returned)
C17_LoggedEntryListsToolCalls ==
    (pc = "input" /\ logged = 1) =>
        /\ log_entry.type = "agent_conversation"
        /\ "tool_calls" \in log_entry.fields
        /\ Len(log_entry.tool_calls) = made

\* C21: in every context materialized for the model (get_context_messages,
\* at the head of the query loop) each 'tool' message is preceded, in that
\* context, by the assistant message whose tool call it answers
C21_ToolResultAfterItsAssistant ==
    pc = "stream" =>
        \A i \in 1..Len(messages) :
            messages[i].role = "tool" =>
                \E j \in 1..(i - 1) :
                    /\ messages[j].role = "assistant"
                    /\ messages[i].tool_call_id \in messages[j].tool_calls

(***************************************************************************)
(* Agent Service: AgentSystem (agents/registry.py)                         *)
(***************************************************************************)
Calls == 1..MaxCalls

NoSystem == [exists |-> FALSE]
NoResponse == [none |-> TRUE]

\* AgentSystem.__init__: main_agent = None, _initialized = False
NewSystem == [exists |-> TRUE, initialized |-> FALSE, main_agent |-> FALSE]

\* a readiness check that lets every system through
is_ready_Always(sys) == TRUE

\* AgentSystem.is_ready
is_ready(sys) == sys.initialized /\ sys.main_agent

\* AgentSystem.get_system_status()["status"]
get_system_status(sys) ==
    IF ~sys.initialized THEN "not_initialized"
    ELSE IF is_ready(sys) THEN "ready"
    ELSE "not_ready"

\* the flag set before the main agent is built: a failed construction leaves
\* the system marked initialized without a main agent
initialize_FlagFirst(sys, ctor_ok) ==
    IF sys.initialized THEN [sys |-> sys, raised |-> FALSE]
    ELSE IF ctor_ok
         THEN [sys |-> [sys EXCEPT !.main_agent = TRUE, !.initialized = TRUE],
               raised |-> FALSE]
         ELSE [sys |-> [sys EXCEPT !.initialized = TRUE], raised |-> TRUE]

\* AgentSystem.initialize: no-op when initialized; else build the MainAgent
\* (ctor_ok: its construction succeeds) and set _initialized; an exception of
\* the construction is re-raised and leaves the system as it was
initialize(sys, ctor_ok) ==
    IF sys.initialized THEN [sys |-> sys, raised |-> FALSE]
    ELSE IF ctor_ok
         THEN [sys |-> [sys EXCEPT !.main_agent = TRUE, !.initialized = TRUE],
               raised |-> FALSE]
         ELSE [sys |-> sys, raised |-> TRUE]

\* an AgentResponse (confidence in hundredths)
Response(success, text, err, type, conf) ==
    [success |-> success, response_text |-> text, error_message |-> err,
     agent_type |-> type, confidence |-> conf]

\* texts an agent may answer with: a reply, nothing, only white space
Reply == <<"o", "k">>
Texts == { Reply, <<>>, <<" ">> }

\* what the selected agent's process does: it raises, or answers with a text
Raises == [raised |-> TRUE, text |-> <<>>]
ProcessOutcomes == { [raised |-> FALSE, text |-> t] : t \in Texts } \cup { Raises }

(***************************************************************************)
(* Agent Service: MainAgent (agents/main_agent.py) and its sub-agents      *)
(***************************************************************************)
\* the sub-agent list in the reverse order
sub_agents_ConversationFirst == <<"conversation", "rca">>

\* MainAgent.sub_agents: RCA first, conversation as fallback
sub_agents == <<"rca", "conversation">>

\* MainAgent._select_agent over the agents list[i..]: the first agent whose
\* can_handle answers "yes"; "no" and "raise" (logged, continue) decline.
\* can: agent name -> "yes" | "no" | "raise"
RECURSIVE select_from(_, _, _)
select_from(agents, i, can) ==
    IF i > Len(agents) THEN "none"
    ELSE IF can[agents[i]] = "yes" THEN agents[i]
    ELSE select_from(agents, i + 1, can)

select_agent(can) == select_from(sub_agents, 1, can)

\* RCAAgent.process: its own try/except; always answers as "rca"
rca_process(proc) ==
    IF proc.raised THEN Response(FALSE, Reply, "process", "rca", 0)
    ELSE Response(TRUE, Reply, "", "rca", 85)

\* ConversationAgent.process: the LLM text, whatever it is (an LLM failure is
\* answered with a canned text); no try/except of its own
conversation_process(proc) == Response(TRUE, proc.text, "", "conversation", 90)

\* MainAgent._create_fallback_response
fallback_response == Response(TRUE, Reply, "", "main", 30)

\* MainAgent.process: select, delegate; any exception becomes a failure
\* response of agent_type "main"
main_agent_process(can, proc) ==
    LET selected == select_agent(can)
    IN  IF selected = "none" THEN fallback_response
        ELSE IF selected = "rca" THEN rca_process(proc)
        ELSE IF proc.raised THEN Response(FALSE, Reply, "process", "main", 0)
        ELSE conversation_process(proc)

\* AgentSystem.process_request once past its initialized check: an exception
\* of _create_context (ctx_ok false) becomes a failure response of agent_type
\* "system"
process_request(ctx_ok, can, proc) ==
    IF ~ctx_ok THEN Response(FALSE, Reply, "context", "system", 0)
    ELSE main_agent_process(can, proc)

(***************************************************************************)
(* Agent Service: AgentServiceHandler (grpc/handlers.py), ReplyHandler     *)
(***************************************************************************)
\* an exception that leaves ProcessMessage instead of becoming a payload
ProcessMessage_except_Propagates(e) ==
    [raised |-> TRUE, success |-> FALSE, response_text |-> Reply,
     error_message |-> e, agent_type |-> "error", confidence |-> 0]

\* ProcessMessage, except Exception as e: the error payload
ProcessMessage_except(e) ==
    [raised |-> FALSE, success |-> FALSE, response_text |-> Reply,
     error_message |-> e, agent_type |-> "error", confidence |-> 0]

\* _convert_response
convert_response(r) ==
    [raised |-> FALSE, success |-> r.success, response_text |-> r.response_text,
     error_message |-> r.error_message, agent_type |-> r.agent_type,
     confidence |-> r.confidence]

\* handlers.py:68  agent_response.success and agent_response.response_text
wants_reply(r) == r.success /\ r.response_text # <<>>

\* the empty-text check without the strip
rejects_empty_NoStrip(text) == text = <<>>

\* reply_handler.py:48  not response_text or not response_text.strip()
rejects_empty(text) == text = <<>> \/ Strip(text) = <<>>

ServiceInit ==
    /\ agent_system = NoSystem
    /\ systems_constructed = 0
    /\ cpc = [c \in Calls |-> "idle"]
    /\ agent_response = [c \in Calls |-> NoResponse]
    /\ rpc_response = [c \in Calls |-> NoResponse]
    /\ standalone = NewSystem
    /\ sends = [c \in Calls |-> 0]
    /\ sendState = [c \in Calls |-> "none"]
    /\ stages = [c \in Calls |-> {}]
    /\ route = [c \in Calls |-> NoResponse]
    /\ init_returned = FALSE
    /\ direct = [called |-> FALSE]

\* ProcessMessage returns payload r for call c
Return(c, r) ==
    /\ rpc_response' = [rpc_response EXCEPT ![c] = r]
    /\ cpc' = [cpc EXCEPT ![c] = "returned"]

\* ProcessMessage up to the conversion of the request: lazy initialization
\* (initialize_agent_system), the readiness check, _convert_request
ProcessMessage_begin(c) ==
    /\ cpc[c] = "idle"
    /\ \E ctor_ok \in BOOLEAN, convert_ok \in BOOLEAN :
        LET created == agent_system = NoSystem
            init == initialize(NewSystem, ctor_ok)
            sys == IF created THEN init.sys ELSE agent_system
        IN  /\ agent_system' = sys
            /\ systems_constructed' =
                  IF created THEN systems_constructed + 1
                  ELSE systems_constructed
            /\ IF created /\ init.raised
               THEN /\ Return(c, ProcessMessage_except("init"))
                    /\ stages' = [stages EXCEPT ![c] = {"init"}]
               ELSE IF ~is_ready(sys)
               THEN /\ Return(c, ProcessMessage_except("not ready"))
                    /\ stages' = [stages EXCEPT ![c] = {"ready"}]
               ELSE IF ~convert_ok
               THEN /\ Return(c, ProcessMessage_except("convert"))
                    /\ stages' = [stages EXCEPT ![c] = {"convert"}]
               ELSE /\ cpc' = [cpc EXCEPT ![c] = "process"]
                    /\ UNCHANGED <<rpc_response, stages>>
    /\ UNCHANGED <<agent_response, standalone, sends, sendState, route,
                   init_returned, direct>>

\* ProcessMessage: await self.agent_system.process_request(agent_request)
ProcessMessage_process(c) ==
    /\ cpc[c] = "process"
    /\ \E ctx_ok \in BOOLEAN, can \in [{"rca", "conversation"} -> {"yes", "no", "raise"}],
          proc \in ProcessOutcomes :
        IF ~agent_system.initialized \/ ~agent_system.main_agent
        THEN /\ Return(c, ProcessMessage_except("not initialized"))
             /\ stages' = [stages EXCEPT ![c] = {"ready"}]
             /\ UNCHANGED <<agent_response, route>>
        ELSE LET selected == select_agent(can)
                 ran == ctx_ok /\ selected # "none"
             IN  /\ agent_response' =
                       [agent_response EXCEPT ![c] = process_request(ctx_ok, can, proc)]
                 /\ cpc' = [cpc EXCEPT ![c] = "reply"]
                 /\ route' = [route EXCEPT ![c] =
                       IF ctx_ok
                       THEN [rca |-> can["rca"],
                             conversation |-> IF can["rca"] = "yes" THEN "unasked"
                                              ELSE can["conversation"],
                             raised |-> ran /\ proc.raised]
                       ELSE NoResponse]
                 /\ stages' = [stages EXCEPT ![c] =
                       (IF ~ctx_ok THEN {"context"} ELSE {})
                       \cup (IF ctx_ok /\ (can["rca"] = "raise"
                                 \/ (can["rca"] = "no" /\ can["conversation"] = "raise"))
                             THEN {"can_handle"} ELSE {})
                       \cup (IF ran /\ proc.raised THEN {"process"} ELSE {})]
                 /\ UNCHANGED rpc_response
    /\ UNCHANGED <<agent_system, systems_constructed,
                   standalone, sends, sendState, init_returned, direct>>

\* ProcessMessage: no reply is due, or ReplyHandler.send_agent_response
\* rejects the text; the converted response is returned
ProcessMessage_no_reply(c) ==
    /\ cpc[c] = "reply"
    /\ ~wants_reply(agent_response[c]) \/ rejects_empty(agent_response[c].response_text)
    /\ Return(c, convert_response(agent_response[c]))
    /\ UNCHANGED <<agent_system, systems_constructed,
                   agent_response, standalone, sends, sendState, stages,
                   route, init_returned, direct>>

\* ProcessMessage: _send_reply_to_slack -> send_agent_response ->
\* client.send_reply is entered
ProcessMessage_send_reply(c) ==
    /\ cpc[c] = "reply"
    /\ wants_reply(agent_response[c])
    /\ ~rejects_empty(agent_response[c].response_text)
    /\ sends' = [sends EXCEPT ![c] = @ + 1]
    /\ sendState' = [sendState EXCEPT ![c] = "inflight"]
    /\ cpc' = [cpc EXCEPT ![c] = "sending"]
    /\ UNCHANGED <<agent_system, systems_constructed,
                   agent_response, rpc_response, standalone, stages,
                   route, init_returned, direct>>

\* ProcessMessage: send_reply is over (delivered, refused by the peer, or an
\* exception, which the wrappers log and swallow); the converted response is
\* returned
ProcessMessage_reply_done(c) ==
    /\ cpc[c] = "sending"
    /\ \E outcome \in {"sent", "refused", "raise"} :
        stages' = [stages EXCEPT ![c] =
                     IF outcome = "raise" THEN @ \cup {"reply"} ELSE @]
    /\ sendState' = [sendState EXCEPT ![c] = "done"]
    /\ Return(c, convert_response(agent_response[c]))
    /\ UNCHANGED <<agent_system, systems_constructed,
                   agent_response, standalone, sends, route,
                   init_returned, direct>>

\* a caller of AgentSystem itself: await system.initialize()
system_initialize ==
    /\ \E ctor_ok \in BOOLEAN :
        LET init == initialize(standalone, ctor_ok)
        IN  /\ standalone' = init.sys
            /\ init_returned' = (init_returned \/ ~init.raised)
    /\ UNCHANGED <<agent_system, systems_constructed,
                   cpc, agent_response, rpc_response, sends, sendState,
                   stages, route, direct>>

\* a caller of AgentSystem itself: await system.process_request(request);
\* it raises RuntimeError when not initialized or without a main agent
system_process_request ==
    /\ direct' = [called |-> TRUE, before_init |-> ~init_returned,
                  raised |-> ~standalone.initialized \/ ~standalone.main_agent]
    /\ UNCHANGED <<agent_system, systems_constructed,
                   cpc, agent_response, rpc_response, standalone, sends,
                   sendState, stages, route, init_returned>>

ServiceNext ==
    \/ \E c \in Calls : ProcessMessage_begin(c)
    \/ \E c \in Calls : ProcessMessage_process(c)
    \/ \E c \in Calls : ProcessMessage_no_reply(c)
    \/ \E c \in Calls : ProcessMessage_send_reply(c)
    \/ \E c \in Calls : ProcessMessage_reply_done(c)
    \/ system_initialize
    \/ system_process_request

serviceVars == <<agent_system, systems_constructed, cpc, agent_response, rpc_response, standalone, sends,
                 sendState, stages, route, init_returned, direct>>

(***************************************************************************)
(* Agent Service: ToolRegistry (tools/registry.py)                         *)
(***************************************************************************)
Tools == 1..MaxTools

\* what a tool's initialize() does: returns True, returns False, raises
InitOutcomes == {"ok", "false", "raise"}

\* the loop gives up at the first tool that fails
RECURSIVE initialize_loop_StopAtFailure(_, _)
initialize_loop_StopAtFailure(todo, outcome) ==
    IF todo = {} THEN [attempted |-> {}, failed |-> {}]
    ELSE LET t == CHOOSE x \in todo : \A y \in todo : x <= y
         IN  IF outcome[t] # "ok" THEN [attempted |-> {t}, failed |-> {t}]
             ELSE LET rest == initialize_loop_StopAtFailure(todo \ {t}, outcome)
                  IN  [attempted |-> {t} \cup rest.attempted, failed |-> rest.failed]

\* ToolRegistry.initialize, the loop over self._tools.items(): every tool is
\* tried, one returning False or raising goes to failed_tools
RECURSIVE initialize_loop(_, _)
initialize_loop(todo, outcome) ==
    IF todo = {} THEN [attempted |-> {}, failed |-> {}]
    ELSE LET t == CHOOSE x \in todo : \A y \in todo : x <= y
             rest == initialize_loop(todo \ {t}, outcome)
         IN  [attempted |-> {t} \cup rest.attempted,
              failed |-> (IF outcome[t] # "ok" THEN {t} ELSE {}) \cup rest.failed]

\* a ToolExecutionResult; raised marks an exception leaving execute_tool
ToolResult(success, error) == [raised |-> FALSE, success |-> success, error |-> error]

\* the exception is not caught
execute_tool_except_Propagates(e) == [raised |-> TRUE, success |-> FALSE, error |-> e]

\* ToolRegistry.execute_tool, except Exception as e
execute_tool_except(e) == ToolResult(FALSE, e)

\* execute_tool with the parameters validated before the health check
execute_tool_ValidatesFirst(found, health, valid, exec, timeout) ==
    IF ~found THEN ToolResult(FALSE, "not found")
    ELSE IF valid = "raise" THEN execute_tool_except("validate_parameters")
    ELSE IF valid = "false" THEN ToolResult(FALSE, "invalid parameters")
    ELSE IF health = "raise" THEN execute_tool_except("health_check")
    ELSE IF health = "false" THEN ToolResult(FALSE, "not healthy")
    ELSE IF exec = "raise" THEN execute_tool_except("execute")
    ELSE IF exec = "slow" /\ timeout THEN ToolResult(FALSE, "timed out")
    ELSE IF exec = "fail" THEN ToolResult(FALSE, "tool failure")
    ELSE ToolResult(TRUE, "")

\* ToolRegistry.execute_tool: found, healthy, valid parameters, execution
\* (under asyncio.wait_for when a timeout is given).  health and valid are
\* "true", "false" or "raise"; exec is "ok", "fail" (the tool's own failure
\* result), "raise" or "slow" (does not finish within the timeout)
execute_tool(found, health, valid, exec, timeout) ==
    IF ~found THEN ToolResult(FALSE, "not found")
    ELSE IF health = "raise" THEN execute_tool_except("health_check")
    ELSE IF health = "false" THEN ToolResult(FALSE, "not healthy")
    ELSE IF valid = "raise" THEN execute_tool_except("validate_parameters")
    ELSE IF valid = "false" THEN ToolResult(FALSE, "invalid parameters")
    ELSE IF exec = "raise" THEN execute_tool_except("execute")
    ELSE IF exec = "slow" /\ timeout THEN ToolResult(FALSE, "timed out")
    ELSE IF exec = "fail" THEN ToolResult(FALSE, "tool failure")
    ELSE ToolResult(TRUE, "")

NoCall == [called |-> FALSE]

ToolsInit ==
    /\ registry_tools = {}
    /\ registry_initialized = FALSE
    /\ is_initialized = [t \in Tools |-> FALSE]
    /\ init_failed = {}
    /\ last_init = NoCall
    /\ last_exec = NoCall

\* await registry.initialize()
registry_initialize ==
    /\ \E outcome \in [registry_tools -> InitOutcomes] :
        IF registry_initialized
        THEN /\ last_init' = [called |-> TRUE, ran |-> FALSE, result |-> TRUE,
                               registered |-> registry_tools, attempted |-> {},
                               failed |-> init_failed]
             /\ UNCHANGED <<registry_initialized, is_initialized, init_failed>>
        ELSE LET loop == initialize_loop(registry_tools, outcome)
             IN  /\ is_initialized' =
                       [t \in Tools |-> IF t \in loop.attempted
                                        THEN outcome[t] = "ok"
                                        ELSE is_initialized[t]]
                 /\ init_failed' = (init_failed \ loop.attempted) \cup loop.failed
                 /\ registry_initialized' = (loop.failed = {})
                 /\ last_init' = [called |-> TRUE, ran |-> TRUE,
                                   result |-> (loop.failed = {}),
                                   registered |-> registry_tools,
                                   attempted |-> loop.attempted,
                                   failed |-> init_failed']
    /\ UNCHANGED <<registry_tools, last_exec>>

\* await registry.register_tool(tool): a new tool object under name t; it is
\* initialized at once when the registry already is, and stays registered
\* when that fails
register_tool(t) ==
    /\ registry_tools' = registry_tools \cup {t}
    /\ \E outcome \in InitOutcomes :
        IF registry_initialized
        THEN /\ is_initialized' = [is_initialized EXCEPT ![t] = (outcome = "ok")]
             /\ init_failed' = IF outcome = "ok" THEN init_failed \ {t}
                               ELSE init_failed \cup {t}
        ELSE /\ is_initialized' = [is_initialized EXCEPT ![t] = FALSE]
             /\ init_failed' = init_failed \ {t}
    /\ UNCHANGED <<registry_initialized, last_init, last_exec>>

\* await registry.unregister_tool(name): the tool's cleanup, then the removal;
\* a cleanup that raises leaves the tool registered
unregister_tool(t) ==
    /\ t \in registry_tools
    /\ \E cleanup_ok \in BOOLEAN :
        IF cleanup_ok
        THEN /\ registry_tools' = registry_tools \ {t}
             /\ is_initialized' = [is_initialized EXCEPT ![t] = FALSE]
             /\ init_failed' = init_failed \ {t}
        ELSE UNCHANGED <<registry_tools, is_initialized, init_failed>>
    /\ UNCHANGED <<registry_initialized, last_init, last_exec>>

\* await registry.execute_tool(name, parameters, timeout); the health check
\* is BaseTool's (the tool's _is_initialized) or an override that raises
registry_execute_tool(t) ==
    /\ \E health_raises \in BOOLEAN, valid \in {"true", "false", "raise"},
          exec \in {"ok", "fail", "raise", "slow"}, timeout \in BOOLEAN :
        LET found == t \in registry_tools
            health == IF health_raises THEN "raise"
                      ELSE IF is_initialized[t] THEN "true" ELSE "false"
            result == execute_tool(found, health, valid, exec, timeout)
            reached == found /\ health = "true" /\ valid = "true"
        IN  last_exec' = [called |-> TRUE, tool |-> t, found |-> found,
                          health |-> IF found THEN health ELSE "unasked",
                          valid |-> IF found /\ health = "true" THEN valid ELSE "unasked",
                          exec |-> IF ~reached THEN "unasked"
                                   ELSE IF exec = "slow" /\ ~timeout THEN "ok"
                                   ELSE exec,
                          result |-> result]
    /\ UNCHANGED <<registry_tools, registry_initialized, is_initialized, init_failed,
                   last_init>>

\* await registry.cleanup()
registry_cleanup ==
    /\ registry_tools' = {}
    /\ registry_initialized' = FALSE
    /\ is_initialized' = [t \in Tools |-> FALSE]
    /\ init_failed' = {}
    /\ UNCHANGED <<last_init, last_exec>>

ToolsNext ==
    \/ registry_initialize
    \/ \E t \in Tools : register_tool(t)
    \/ \E t \in Tools : unregister_tool(t)
    \/ \E t \in Tools : registry_execute_tool(t)
    \/ registry_cleanup

toolsVars == <<registry_tools, registry_initialized, is_initialized, init_failed,
               last_init, last_exec>>

(***************************************************************************)
(* Properties of the ToolRegistry                                          *)
(***************************************************************************)
\* C9: execute_tool never raises; an exception of the health check, of the
\* parameter validation or of the execution, and an elapsed timeout, are
\* each returned as a result with success=false
C9_ExecuteToolNeverRaises ==
    last_exec.called =>
        /\ ~last_exec.result.raised
        /\ ("raise" \in {last_exec.health, last_exec.valid, last_exec.exec}
              \/ last_exec.exec = "slow") => ~last_exec.result.success
        /\ last_exec.result.success => last_exec.exec = "ok"

\* an execution that raised inside the tool came back as a failure result
C9_Witness ==
    /\ last_exec.called
    /\ last_exec.exec = "raise"
    /\ ~last_exec.result.raised
    /\ ~last_exec.result.success

\* C29: whenever the registry is in the initialized state every tool it
\* contains has been initialized successfully; a register_tool call whose
\* tool fails to initialize does not leave that tool registered
C29_InitializedRegistryHoldsInitializedTools ==
    registry_initialized =>
        \A t \in registry_tools : is_initialized[t] /\ t \notin init_failed

\* C23: execute_tool checks, in this order, that the tool exists, that it is
\* healthy and that the parameters are valid, and calls the tool's execute
\* only after all three passed; the first failing check decides the error
\* returned and no later step is performed
C23_ChecksInOrder ==
    last_exec.called =>
        LET r == last_exec.result
            unasked(step) == step = "unasked"
        IN  /\ ~last_exec.found =>
                /\ r.error = "not found"
                /\ unasked(last_exec.health) /\ unasked(last_exec.valid)
                /\ unasked(last_exec.exec)
            /\ last_exec.found /\ last_exec.health # "true" =>
                /\ r.error = IF last_exec.health = "raise" THEN "health_check"
                             ELSE "not healthy"
                /\ unasked(last_exec.valid) /\ unasked(last_exec.exec)
            /\ last_exec.found /\ last_exec.health = "true"
                  /\ last_exec.valid # "true" =>
                /\ r.error = IF last_exec.valid = "raise"
                             THEN "validate_parameters"
                             ELSE "invalid parameters"
                /\ unasked(last_exec.exec)
            /\ r.success \/ r.error \in {"execute", "timed out", "tool failure"} =>
                /\ last_exec.found
                /\ last_exec.health = "true"
                /\ last_exec.valid = "true"
                /\ ~unasked(last_exec.exec)

\* C23 witness: a registered tool that is not healthy was asked for: the
\* call stopped at the health check
C23_Witness ==
    /\ last_exec.called
    /\ last_exec.found
    /\ last_exec.health = "false"
    /\ last_exec.result.error = "not healthy"
    /\ last_exec.valid = "unasked"

\* C10: initialize() tries every registered tool, whatever the earlier ones
\* did, and returns true only if no registered tool has failed to initialize
C10_InitializeReportsFailures ==
    last_init.called =>
        /\ last_init.ran => last_init.attempted = last_init.registered
        /\ last_init.result => last_init.failed \cap last_init.registered = {}

(***************************************************************************)
(* Properties of the Agent Service                                         *)
(***************************************************************************)
Returned(c) == cpc[c] = "returned"
Answered(c) == agent_response[c] # NoResponse
IsErrorPayload(r) ==
    ~r.success /\ r.agent_type = "error" /\ r.confidence = 0

\* C4 (as the code has it): ProcessMessage never raises and always returns a
\* payload.  An exception of lazy initialization, of the readiness check or
\* of request conversion yields success=false, agent_type="error",
\* confidence 0 and the exception text as error_message.  An exception
\* inside agent processing is caught below the handler and yields
\* success=false, confidence 0 with agent_type "system" (context creation)
\* or "rca" / "main" (the agent's process); an exception of can_handle or of
\* reply delivery leaves the agent's response as it is.
C4_AlwaysAPayload ==
    \A c \in Calls : Returned(c) =>
        LET r == rpc_response[c]
        IN  /\ ~r.raised
            /\ stages[c] \cap {"init", "ready", "convert"} # {} =>
                  /\ IsErrorPayload(r)
                  /\ r.error_message \in {"init", "not ready", "convert"}
                  /\ ~Answered(c)
            /\ "context" \in stages[c] =>
                  ~r.success /\ r.agent_type = "system" /\ r.confidence = 0
            /\ "process" \in stages[c] =>
                  ~r.success /\ r.agent_type \in {"rca", "main"} /\ r.confidence = 0
            /\ Answered(c) => r = convert_response(agent_response[c])

\* a call whose request conversion raised has returned the error payload,
\* and another whose agent raised has returned that agent's failure response
C4_Witness ==
    /\ \E c \in Calls : Returned(c) /\ stages[c] = {"convert"}
                        /\ rpc_response[c].agent_type = "error"
    /\ \E c \in Calls : Returned(c) /\ "process" \in stages[c]
                        /\ rpc_response[c].agent_type = "main"

\* C4 as stated: every exception on the path, agent processing and reply
\* delivery included, yields the agent_type="error" payload
C4_EveryExceptionIsErrorPayload ==
    \A c \in Calls : (Returned(c) /\ stages[c] # {}) =>
        /\ ~rpc_response[c].raised
        /\ IsErrorPayload(rpc_response[c])

\* C5: process_request raises when called before initialize() has returned;
\* once initialize() has returned the system is ready and reports "ready"
C5_ReadyAfterInitialize ==
    /\ (direct.called /\ direct.before_init) => direct.raised
    /\ init_returned =>
          /\ is_ready(standalone)
          /\ get_system_status(standalone) = "ready"

\* process_request was called too early and raised, a failed initialize()
\* or none came before it, and initialize() has returned since
C5_Witness ==
    /\ direct.called /\ direct.before_init /\ direct.raised
    /\ init_returned
    /\ get_system_status(standalone) = "ready"

\* C27: if the initialization of the agent system raises during one
\* ProcessMessage call, a later call attempts the initialization again: a
\* call that finds the system uninitialized either initializes it or fails
\* in the initialization
C27_FailedInitIsRetried ==
    [][ \A c \in Calls :
            (/\ agent_system # NoSystem
             /\ ~agent_system.initialized
             /\ cpc[c] = "idle"
             /\ cpc'[c] # "idle")
                => agent_system'.initialized \/ stages'[c] = {"init"}
      ]_serviceVars

\* C28: for any interleaving of ProcessMessage calls on one handler, at most
\* one AgentSystem is constructed and initialized, and no call is at
\* process_request with a system whose initialization has not completed
C28_OneSystemInitializedBeforeUse ==
    /\ systems_constructed <= 1
    /\ \A c \in Calls :
        cpc[c] = "process" =>
            /\ agent_system # NoSystem
            /\ agent_system.initialized
            /\ agent_system.main_agent

\* C28 witness: two calls are at process_request on the one system
C28_Witness ==
    /\ systems_constructed = 1
    /\ \A c \in Calls : cpc[c] = "process"
    /\ agent_system.initialized

Sendable(r) == r.success /\ Strip(r.response_text) # <<>>

\* C7 (as the code has it): a call attempts delivery at most once, the
\* attempt is over when the RPC returns, and a returned call has attempted
\* delivery exactly when the agent response has success=true and a
\* response_text with a character that is not white space
C7_ReplyBeforeReturn ==
    \A c \in Calls :
        /\ sends[c] <= 1
        /\ sendState[c] = "inflight" => cpc[c] = "sending"
        /\ Returned(c) =>
              /\ sendState[c] # "inflight"
              /\ sends[c] = 1 <=> (Answered(c) /\ Sendable(agent_response[c]))

\* one call has delivered its reply and returned, another returned a
\* successful response of white space only without a delivery attempt
C7_Witness ==
    /\ \E c \in Calls : Returned(c) /\ sends[c] = 1 /\ sendState[c] = "done"
    /\ \E c \in Calls : Returned(c) /\ Answered(c) /\ sends[c] = 0
                        /\ agent_response[c].success
                        /\ agent_response[c].response_text = <<" ">>

\* C7 as stated: delivery is attempted exactly when success=true and the
\* response_text is not empty
C7_ReplyWhenNonEmpty ==
    \A c \in Calls : (Returned(c) /\ Answered(c)) =>
        (sends[c] = 1 <=> wants_reply(agent_response[c]))

Routed(c) == Answered(c) /\ route[c] # NoResponse

\* C8 (as the code has it): RCA is asked first and Conversation only when
\* RCA does not accept; a message RCA accepts is answered with agent_type
\* "rca"; a message RCA does not accept and Conversation accepts is answered
\* with agent_type "conversation", unless the conversation agent's process
\* raises, which MainAgent answers itself with agent_type "main"
C8_FirstAcceptingAgent ==
    \A c \in Calls : Routed(c) =>
        LET t == agent_response[c].agent_type
        IN  /\ route[c].rca = "yes" => t = "rca"
            /\ (route[c].rca # "yes" /\ route[c].conversation = "yes") =>
                  t = (IF route[c].raised THEN "main" ELSE "conversation")
            /\ t = "conversation" => route[c].rca # "yes"
            /\ t = "rca" => route[c].rca = "yes"

\* one message went to RCA though Conversation would not have been asked,
\* another was declined by RCA and answered by Conversation
C8_Witness ==
    /\ \E c \in Calls : Routed(c) /\ route[c].rca = "yes"
                        /\ agent_response[c].agent_type = "rca"
    /\ \E c \in Calls : Routed(c) /\ route[c].rca = "no"
                        /\ route[c].conversation = "yes"
                        /\ agent_response[c].agent_type = "conversation"

\* C8 as stated: whatever RCA declines and Conversation accepts is answered
\* with agent_type "conversation"
C8_ConversationAlwaysAnswers ==
    \A c \in Calls : Routed(c) =>
        /\ route[c].rca = "yes" => agent_response[c].agent_type = "rca"
        /\ (route[c].rca # "yes" /\ route[c].conversation = "yes") =>
              agent_response[c].agent_type = "conversation"

(***************************************************************************)
(* CLI sandbox: the container executor (cli/src/infragpt/container.py)     *)
(***************************************************************************)
\* ids docker gives to the containers this process creates
ContainerIds == 1..MaxContainers

\* substring test: sub in s
Contains(s, sub) ==
    \E i \in 1..Len(s) :
        /\ i + Len(sub) - 1 <= Len(s)
        /\ \A j \in 1..Len(sub) : s[i + j - 1] = sub[j]

\* commands handed to execute_command: ls, cd, "cd x", "ls; cd x"
Commands ==
    { <<"l", "s">>,
      <<"c", "d">>,
      <<"c", "d", " ", "x">>,
      <<"l", "s", ";", "c", "d", " ", "x">> }

\* _track_cwd:  "cd " in command or command.strip() == "cd"
tracks_cwd(command) ==
    Contains(command, <<"c", "d", " ">>) \/ Strip(command) = <<"c", "d">>

\* what execute_command gives its caller: a tuple, or an exception
Returns(exit_code, was_cancelled) ==
    [raised |-> FALSE, exit_code |-> exit_code, was_cancelled |-> was_cancelled]
RaisesError == [raised |-> TRUE, exit_code |-> 0, was_cancelled |-> FALSE]

\* exit_code = exec_info.get("ExitCode", -1) if not self.cancelled else -1
exit_code_of(exec_code, is_cancelled) == IF is_cancelled THEN -1 ELSE exec_code

\* ContainerRunner.execute_command on a started container.  create_ok,
\* stream_ok, inspect_ok: exec_create, exec_start and exec_inspect do not
\* raise; interrupted: KeyboardInterrupt arrives while the output streams
execute_command(create_ok, stream_ok, interrupted, inspect_ok, exec_code) ==
    IF ~create_ok THEN Returns(-1, FALSE)
    ELSE IF ~interrupted /\ ~stream_ok THEN Returns(-1, FALSE)
    ELSE IF ~inspect_ok THEN Returns(-1, FALSE)
    ELSE Returns(exit_code_of(exec_code, interrupted), interrupted)

\* times the command is started in the container by one execute_command:
\* once by the streaming exec_start, and once more by _track_cwd, whose probe
\* "cd <cwd>; <command>; pwd" is started when the command tracks the cwd
starts_of(command, create_ok, stream_ok, interrupted, inspect_ok, track_ok) ==
    IF ~create_ok THEN 0
    ELSE IF (~interrupted /\ ~stream_ok) \/ ~inspect_ok THEN 1
    ELSE IF tracks_cwd(command) /\ track_ok THEN 2
    ELSE 1

ContainerInit ==
    /\ executor = FALSE
    /\ container = 0
    /\ client = FALSE
    /\ cancelled = FALSE
    /\ containers = {}
    /\ containers_created = 0
    /\ last_run = [called |-> FALSE]

\* get_executor(): the ContainerRunner singleton is created when there is none
container_get_executor ==
    /\ ~executor
    /\ executor' = TRUE
    /\ container' = 0
    /\ client' = FALSE
    /\ cancelled' = FALSE
    /\ UNCHANGED <<containers, containers_created, last_run>>

\* ContainerRunner.start(): docker missing or not running raises before
\* anything is set; a failed image pull raises after the client is made;
\* otherwise containers.run creates a container and self.container is it
container_start ==
    /\ executor
    /\ \E outcome \in {"no docker", "no image", "run"} :
        CASE outcome = "no docker" ->
                UNCHANGED <<container, client, containers, containers_created>>
          [] outcome = "no image" ->
                /\ client' = TRUE
                /\ UNCHANGED <<container, containers, containers_created>>
          [] outcome = "run" ->
                /\ containers_created < MaxContainers
                /\ client' = TRUE
                /\ containers_created' = containers_created + 1
                /\ container' = containers_created + 1
                /\ containers' = containers \cup {containers_created + 1}
    /\ UNCHANGED <<executor, cancelled, last_run>>

\* ContainerRunner.execute_command(command)
container_execute_command ==
    /\ executor
    /\ \E command \in Commands, create_ok \in BOOLEAN, stream_ok \in BOOLEAN,
          interrupted \in BOOLEAN, inspect_ok \in BOOLEAN, track_ok \in BOOLEAN,
          exec_code \in {0, 1} :
        IF container = 0
        THEN /\ last_run' = [called |-> TRUE, started |-> FALSE,
                             interrupted |-> FALSE, starts |-> 0,
                             result |-> RaisesError]
             /\ UNCHANGED cancelled
        ELSE /\ cancelled' = (create_ok /\ interrupted)
             /\ last_run' =
                   [called |-> TRUE, started |-> TRUE,
                    interrupted |-> create_ok /\ interrupted,
                    starts |-> starts_of(command, create_ok, stream_ok,
                                         interrupted, inspect_ok, track_ok),
                    result |-> execute_command(create_ok, stream_ok, interrupted,
                                               inspect_ok, exec_code)]
    /\ UNCHANGED <<executor, container, client, containers, containers_created>>

\* ContainerRunner.stop(): container.stop, else container.kill; the container
\* (run with remove=True) is gone when either works; the runner forgets it
\* and closes the client in any case
runner_stop(stopped) ==
    /\ containers' = IF container # 0 /\ stopped THEN containers \ {container}
                     ELSE containers
    /\ container' = 0
    /\ client' = FALSE

\* cleanup_executor(): the runner's cleanup (stop), then the singleton is
\* dropped
container_cleanup_executor ==
    /\ executor
    /\ \E stopped \in BOOLEAN : runner_stop(stopped)
    /\ executor' = FALSE
    /\ UNCHANGED <<cancelled, containers_created, last_run>>

ContainerNext ==
    \/ container_get_executor
    \/ container_start
    \/ container_execute_command
    \/ container_cleanup_executor

containerVars == <<executor, container, client, cancelled, containers, containers_created,
                   last_run>>

(***************************************************************************)
(* Properties of the container executor                                    *)
(***************************************************************************)
\* C11: at most one sandbox container created by this process exists at any
\* time
C11_AtMostOneContainer == Cardinality(containers) <= 1

\* C12: a command interrupted by KeyboardInterrupt while its output streams
\* is returned with exit code -1 and was_cancelled=true
C12_InterruptIsCancelled ==
    (last_run.called /\ last_run.interrupted) =>
        /\ ~last_run.result.raised
        /\ last_run.result.exit_code = -1
        /\ last_run.result.was_cancelled

\* C20: one execute_command call starts its command in the container at
\* most once
C20_CommandRunsOnce ==
    last_run.called => last_run.starts <= 1

\* C24: the sandbox container is created by the first command execution of
\* the session (execute_command starts it when there is none) and every
\* later command runs in that same container until cleanup
C24_FirstCommandStartsContainer ==
    [][ last_run' # last_run =>
            /\ last_run'.started
            /\ container' # 0
            /\ container # 0 => container' = container ]_containerVars

(***************************************************************************)
(* History log (cli/src/infragpt/history.py, infragpt/utils/history.py)    *)
(***************************************************************************)
\* the limit arguments tried
Limits == 0..(MaxEntries + 1)

Min(a, b) == IF a < b THEN a ELSE b

\* list(reversed(s))
Reverse(s) == [i \in 1..Len(s) |-> s[Len(s) + 1 - i]]

\* s[:k] for k >= 0
SliceTo(s, k) == SubSeq(s, 1, Min(k, Len(s)))

\* s[-k:] for k >= 0; -0 is 0, so s[-0:] is all of s
SliceLast(s, k) ==
    IF k = 0 THEN s ELSE SubSeq(s, Len(s) - Min(k, Len(s)) + 1, Len(s))

\* one line of history.jsonl: a written entry, or a torn (unparsable) one;
\* the type and data of an entry are named by the id and time of the write
\* that first stored them
Entry(id, timestamp) ==
    [id |-> id, timestamp |-> timestamp, valid |-> TRUE,
     data |-> <<id, timestamp>>]
TornLine == [id |-> 0, timestamp |-> 0, valid |-> FALSE, data |-> <<>>]

AllValid(lines) == \A i \in 1..Len(lines) : lines[i].valid

\* the parsed entries of the file, torn lines skipped
RECURSIVE ValidEntries(_)
ValidEntries(lines) ==
    IF lines = <<>> THEN <<>>
    ELSE IF Head(lines).valid THEN <<Head(lines)>> \o ValidEntries(Tail(lines))
    ELSE ValidEntries(Tail(lines))

\* insertion into a list sorted by descending timestamp, behind the entries
\* of an equal timestamp (list.sort is stable, also with reverse=True)
RECURSIVE InsertDesc(_, _)
InsertDesc(sorted, e) ==
    IF sorted = <<>> THEN <<e>>
    ELSE IF Head(sorted).timestamp >= e.timestamp
         THEN <<Head(sorted)>> \o InsertDesc(Tail(sorted), e)
         ELSE <<e>> \o sorted

\* entries.sort(key=lambda x: x.get("timestamp", ""), reverse=True)
RECURSIVE SortDesc(_)
SortDesc(s) ==
    IF s = <<>> THEN <<>>
    ELSE InsertDesc(SortDesc(SubSeq(s, 1, Len(s) - 1)), s[Len(s)])

\* insertion into a list sorted by ascending timestamp, behind the entries
\* of an equal timestamp (sorted is stable)
RECURSIVE InsertAsc(_, _)
InsertAsc(sorted, e) ==
    IF sorted = <<>> THEN <<e>>
    ELSE IF Head(sorted).timestamp <= e.timestamp
         THEN <<Head(sorted)>> \o InsertAsc(Tail(sorted), e)
         ELSE <<e>> \o sorted

\* sorted(keep_entries, key=lambda x: x.get("timestamp", ""))
RECURSIVE SortAsc(_)
SortAsc(s) ==
    IF s = <<>> THEN <<>>
    ELSE InsertAsc(SortAsc(SubSeq(s, 1, Len(s) - 1)), s[Len(s)])

\* the exception reaches the caller
swallowed_Propagates(value) == [raised |-> TRUE, value |-> value]

\* except Exception: the failure is swallowed, the fallback value returned
swallowed(value) == [raised |-> FALSE, value |-> value]

returned(value) == [raised |-> FALSE, value |-> value]

\* cli history.py get_interaction_history(limit)
get_interaction_history(exists, lines, limit, read_ok) ==
    IF ~exists THEN returned(<<>>)
    ELSE IF ~read_ok \/ ~AllValid(lines) THEN swallowed(<<>>)
    ELSE returned(Reverse(SliceLast(lines, limit)))

\* HistoryManager.get_entries(limit) without filters
get_entries(exists, lines, limit, read_ok) ==
    IF ~exists THEN returned(<<>>)
    ELSE IF ~read_ok THEN swallowed(<<>>)
    ELSE returned(SliceTo(SortDesc(ValidEntries(lines)), limit))

HistoryInit ==
    /\ history_exists = FALSE
    /\ history_lines = <<>>
    /\ history_clock = 1
    /\ history_ids = 0
    /\ last_history = [op |-> "none"]

\* the append of one entry by either logger: written whole, not written
\* (mkdir, open or write fails), or torn (the write fails part-way); the
\* clock has moved on since the last entry, or (coarse clock) has not
AppendEntry(op, except) ==
    /\ history_ids < MaxEntries
    /\ \E outcome \in {"ok", "fail", "torn"}, tick \in {0, 1} :
        /\ history_clock' = history_clock + tick
        /\ history_ids' = history_ids + 1
        /\ history_lines' =
              CASE outcome = "ok" ->
                      Append(history_lines, Entry(history_ids + 1, history_clock'))
                [] outcome = "torn" -> Append(history_lines, TornLine)
                [] outcome = "fail" -> history_lines
        /\ history_exists' = (history_exists \/ outcome # "fail")
        /\ last_history' =
              [op |-> op, failed |-> outcome # "ok", limit |-> 0,
               clean |-> FALSE,
               result |-> IF outcome = "ok" THEN returned(<<>>) ELSE except]

\* cli history.py log_interaction(interaction_type, data)
log_interaction == AppendEntry("log_interaction", swallowed(<<>>))

\* HistoryManager.add_entry(interaction_type, data)
add_entry == AppendEntry("add_entry", swallowed(<<>>))

\* a read of the history by get(exists, lines, limit, read_ok)
ReadEntries(op, get(_, _, _, _)) ==
    /\ \E limit \in Limits, read_ok \in BOOLEAN :
        last_history' =
            [op |-> op, failed |-> history_exists /\ (~read_ok \/ ~AllValid(history_lines)),
             limit |-> limit,
             clean |-> history_exists /\ read_ok /\ AllValid(history_lines),
             result |-> get(history_exists, history_lines, limit, read_ok)]
    /\ UNCHANGED <<history_exists, history_lines, history_clock, history_ids>>

\* cli history.py get_interaction_history(limit)
read_interaction_history == ReadEntries("get_interaction_history", get_interaction_history)

\* HistoryManager.get_entries(limit)
read_entries == ReadEntries("get_entries", get_entries)

\* HistoryManager.clear_history(): the file is unlinked; a failure is
\* returned as (False, message)
clear_history ==
    /\ \E unlink_ok \in BOOLEAN :
        IF ~history_exists
        THEN /\ last_history' = [op |-> "clear_history", failed |-> FALSE, limit |-> 0,
                                  clean |-> FALSE, result |-> returned(<<>>)]
             /\ UNCHANGED <<history_exists, history_lines>>
        ELSE IF unlink_ok
        THEN /\ history_exists' = FALSE
             /\ history_lines' = <<>>
             /\ last_history' = [op |-> "clear_history", failed |-> FALSE, limit |-> 0,
                                  clean |-> FALSE, result |-> returned(<<>>)]
        ELSE /\ last_history' = [op |-> "clear_history", failed |-> TRUE, limit |-> 0,
                                  clean |-> FALSE, result |-> swallowed(<<>>)]
             /\ UNCHANGED <<history_exists, history_lines>>
    /\ UNCHANGED <<history_clock, history_ids>>

\* clear_history(older_than), the write-back loop: each kept entry goes
\* through add_entry(entry["type"], entry["data"]), which stores its type
\* and data under a new uuid and the current time
written_back(keep, first_id, now) ==
    [i \in 1..Len(keep) |->
        [id |-> first_id + i - 1, timestamp |-> now, valid |-> TRUE,
         data |-> keep[i].data]]

\* HistoryManager.clear_history(older_than): the entries read by
\* get_entries whose timestamp is not before older_than are kept; the file
\* is unlinked and the kept entries are added again, oldest first
clear_history_older_than ==
    /\ \E older_than \in 1..history_clock, read_ok, unlink_ok \in BOOLEAN,
          tick \in {0, 1} :
        LET all_entries ==
                get_entries(history_exists, history_lines, 999999, read_ok).value
            keep_entries ==
                SelectSeq(all_entries, LAMBDA e : e.timestamp >= older_than)
            keep == SortAsc(keep_entries)
        IN  IF ~history_exists
            THEN /\ last_history' =
                       [op |-> "clear_history", failed |-> FALSE, limit |-> 0,
                        clean |-> FALSE, result |-> returned(<<>>)]
                 /\ UNCHANGED <<history_exists, history_lines, history_clock,
                                history_ids>>
            ELSE IF ~unlink_ok
            THEN /\ last_history' =
                       [op |-> "clear_history", failed |-> TRUE, limit |-> 0,
                        clean |-> FALSE, result |-> swallowed(<<>>)]
                 /\ UNCHANGED <<history_exists, history_lines, history_clock,
                                history_ids>>
            ELSE /\ history_ids + Len(keep) <= MaxEntries
                 /\ history_clock' = history_clock + tick
                 /\ history_ids' = history_ids + Len(keep)
                 /\ history_lines' =
                       written_back(keep, history_ids + 1, history_clock')
                 /\ history_exists' = (keep # <<>>)
                 /\ last_history' =
                       [op |-> "clear_history", failed |-> FALSE, limit |-> 0,
                        clean |-> FALSE, result |-> returned(<<>>)]

HistoryNext ==
    \/ log_interaction
    \/ add_entry
    \/ read_interaction_history
    \/ read_entries
    \/ clear_history
    \/ clear_history_older_than

historyVars == <<history_exists, history_lines, history_clock, history_ids, last_history>>

(***************************************************************************)
(* Properties of the history log                                           *)
(***************************************************************************)
IsRead == last_history.op \in {"get_interaction_history", "get_entries"}

\* C13: with N entries logged, a read with limit k returns exactly
\* min(k, N) entries, the most recently logged ones, newest first
C13_NewestFirstUpToLimit ==
    (IsRead /\ last_history.clean) =>
        last_history.result.value =
            Reverse(SubSeq(history_lines,
                           Len(history_lines)
                               - Min(last_history.limit, Len(history_lines)) + 1,
                           Len(history_lines)))

C25_EntriesKeepIdentity ==
    \A i \in 1..Len(history_lines) :
        history_lines[i].valid =>
            history_lines[i].data =
                <<history_lines[i].id, history_lines[i].timestamp>>

(***************************************************************************)
(* LLM response cache (infragpt/core/llm.py)                               *)
(***************************************************************************)
\* cache keys (md5 of model and prompts), time-to-live values, clock values
CacheKeys == {"k1", "k2"}
TtlValues == 1..MaxTtl
Times == 0..MaxTime

\* responses stored: plain, empty, with a quote, with a backslash
Responses == { <<"a">>, <<>>, <<"\"">>, <<"a", "\\">> }

\* json.dump of a str: quotes around it, quote and backslash escaped
RECURSIVE JsonEscape(_)
JsonEscape(s) ==
    IF s = <<>> THEN <<>>
    ELSE (IF Head(s) \in {"\"", "\\"} THEN <<"\\", Head(s)>> ELSE <<Head(s)>>)
         \o JsonEscape(Tail(s))

JsonDump(s) == <<"\"">> \o JsonEscape(s) \o <<"\"">>

\* json.load of a JSON string
RECURSIVE JsonUnescape(_)
JsonUnescape(j) ==
    IF j = <<>> THEN <<>>
    ELSE IF Head(j) = "\\" THEN <<j[2]>> \o JsonUnescape(Tail(Tail(j)))
    ELSE <<Head(j)>> \o JsonUnescape(Tail(j))

JsonLoad(j) == JsonUnescape(SubSeq(j, 2, Len(j) - 1))

\* a cache file: absent, torn (not JSON), or {"response", "timestamp", ...}
NoFile == [present |-> FALSE]
TornFile == [present |-> TRUE, json |-> FALSE]
CacheFile(response, timestamp) ==
    [present |-> TRUE, json |-> TRUE, response |-> JsonDump(response),
     timestamp |-> timestamp]

\* the entry is dropped once its age reaches the time-to-live
is_expired_AtTtl(now, timestamp, the_ttl) == now - timestamp >= the_ttl

\* time.time() - cache_data["timestamp"] > self.ttl
is_expired(now, timestamp, the_ttl) == now - timestamp > the_ttl

Miss == [hit |-> FALSE, response |-> <<>>]
Hit(response) == [hit |-> TRUE, response |-> response]

\* LLMResponseCache.get: what it returns and what it leaves of the file
cache_get(file, now, the_ttl) ==
    IF ~file.present THEN [value |-> Miss, file |-> file]
    ELSE IF ~file.json THEN [value |-> Miss, file |-> file]
    ELSE IF is_expired(now, file.timestamp, the_ttl)
         THEN [value |-> Miss, file |-> NoFile]
    ELSE [value |-> Hit(JsonLoad(file.response)), file |-> file]

CacheInit ==
    /\ cache_ttl = MaxTtl
    /\ cache_now = 0
    /\ cache_files = [k \in CacheKeys |-> NoFile]
    /\ cache_stored = [k \in CacheKeys |-> <<>>]
    /\ last_cache_get = [called |-> FALSE]

\* LLMResponseCache(cache_dir, ttl): a cache object over the same directory
LLMResponseCache_init ==
    /\ cache_ttl' \in TtlValues
    /\ UNCHANGED <<cache_now, cache_files, cache_stored, last_cache_get>>

\* time.time() moves on
cache_tick ==
    /\ cache_now < MaxTime
    /\ cache_now' = cache_now + 1
    /\ UNCHANGED <<cache_ttl, cache_files, cache_stored, last_cache_get>>

\* LLMResponseCache.set: the file is written whole, not at all, or torn
LLMResponseCache_set(k) ==
    /\ \E response \in Responses, outcome \in {"ok", "fail", "torn"} :
        /\ cache_files' =
              CASE outcome = "ok" ->
                      [cache_files EXCEPT ![k] = CacheFile(response, cache_now)]
                [] outcome = "torn" -> [cache_files EXCEPT ![k] = TornFile]
                [] outcome = "fail" -> cache_files
        /\ cache_stored' = IF outcome = "ok"
                           THEN [cache_stored EXCEPT ![k] = response]
                           ELSE cache_stored
    /\ UNCHANGED <<cache_ttl, cache_now, last_cache_get>>

\* LLMResponseCache.get
LLMResponseCache_get(k) ==
    /\ LET got == cache_get(cache_files[k], cache_now, cache_ttl)
       IN  /\ cache_files' = [cache_files EXCEPT ![k] = got.file]
           /\ last_cache_get' =
                 [called |-> TRUE,
                  entry |-> cache_files[k].present /\ cache_files[k].json,
                  age |-> IF cache_files[k].present /\ cache_files[k].json
                          THEN cache_now - cache_files[k].timestamp ELSE 0,
                  ttl |-> cache_ttl,
                  stored |-> cache_stored[k],
                  value |-> got.value,
                  removed |-> ~got.file.present]
    /\ UNCHANGED <<cache_ttl, cache_now, cache_stored>>

\* LLMResponseCache.clear(max_age): every entry (max_age None, here -1), or
\* the readable entries older than max_age
LLMResponseCache_clear ==
    /\ \E max_age \in {-1} \cup Times :
        cache_files' =
            [k \in CacheKeys |->
                IF ~cache_files[k].present THEN NoFile
                ELSE IF max_age = -1 THEN NoFile
                ELSE IF ~cache_files[k].json THEN cache_files[k]
                ELSE IF cache_now - cache_files[k].timestamp <= max_age
                     THEN cache_files[k]
                ELSE NoFile]
    /\ UNCHANGED <<cache_ttl, cache_now, cache_stored, last_cache_get>>

CacheNext ==
    \/ LLMResponseCache_init
    \/ cache_tick
    \/ \E k \in CacheKeys : LLMResponseCache_set(k)
    \/ \E k \in CacheKeys : LLMResponseCache_get(k)
    \/ LLMResponseCache_clear

cacheVars == <<cache_ttl, cache_now, cache_files, cache_stored, last_cache_get>>

(***************************************************************************)
(* Properties of the LLM response cache                                    *)
(***************************************************************************)
\* C15: get on an entry older than the time-to-live is a miss and removes
\* the entry's file; get on an entry not older than the time-to-live is a
\* hit that returns the stored response unchanged
C15_TtlDecidesHitOrMiss ==
    (last_cache_get.called /\ last_cache_get.entry) =>
        IF last_cache_get.age > last_cache_get.ttl
        THEN ~last_cache_get.value.hit /\ last_cache_get.removed
        ELSE /\ last_cache_get.value = Hit(last_cache_get.stored)
             /\ ~last_cache_get.removed

\* an entry of age ttl + 1 was read: a miss, and its file is gone
C15_Witness ==
    /\ last_cache_get.called /\ last_cache_get.entry
    /\ last_cache_get.age = last_cache_get.ttl + 1
    /\ ~last_cache_get.value.hit
    /\ last_cache_get.removed

(***************************************************************************)
(* Configuration (infragpt/utils/config.py)                                *)
(***************************************************************************)
\* the (model, api_key) pairs of the users
Accounts == { <<"gpt4o", "key1">>, <<"claude", "key2">> }
ProfileNames == {"default", "work"}

\* a credentials mapping {model, api_key}; {} when there is none
Credentials(model, api_key) == [set |-> TRUE, model |-> model, api_key |-> api_key]
NoCredentials == [set |-> FALSE]

\* the _config mapping: version, credentials.default (None is ""),
\* credentials.profiles
ConfigData(default, profiles) ==
    [version |-> 1, default |-> default, profiles |-> profiles]

\* Config.__init__: version 1, no default, no profiles
ConfigDefaults == ConfigData("", [p \in ProfileNames |-> NoCredentials])

\* config.yaml as yaml.safe_load reads it: absent, not YAML, empty, the
\* legacy mapping (api_key possibly missing), or a version-1 mapping
AbsentFile == [kind |-> "absent"]
BrokenFile == [kind |-> "broken"]
EmptyFile == [kind |-> "empty"]
LegacyFile(model, api_key) == [kind |-> "legacy", model |-> model, api_key |-> api_key]
LegacyModelOnly(model) == [kind |-> "legacy model", model |-> model]
VersionedFile(data) == [kind |-> "versioned", data |-> data]

\* files a process may find when it starts
StartFiles ==
    {AbsentFile, BrokenFile, EmptyFile}
    \cup { LegacyFile(a[1], a[2]) : a \in Accounts }
    \cup { LegacyModelOnly(a[1]) : a \in Accounts }
    \cup { VersionedFile(ConfigData("work",
               [p \in ProfileNames |->
                   IF p = "work" THEN Credentials(a[1], a[2]) ELSE NoCredentials])) :
           a \in Accounts }

\* the migration that creates the profile and leaves the default unset
migrate_NoDefault(data, file) ==
    [data EXCEPT !.profiles["default"] = Credentials(file.model, file.api_key)]

\* Config.load, file_version < 1 with model and api_key: the profile
\* "default" is created from them and made the default
migrate(data, file) ==
    [data EXCEPT !.profiles["default"] = Credentials(file.model, file.api_key),
                 !.default = "default"]

\* Config.load: the _config and _loaded it leaves
load(data, file) ==
    CASE file.kind = "absent" -> [data |-> data, loaded |-> FALSE]
      [] file.kind = "broken" -> [data |-> data, loaded |-> FALSE]
      [] file.kind = "empty" -> [data |-> data, loaded |-> TRUE]
      [] file.kind = "legacy model" -> [data |-> data, loaded |-> TRUE]
      [] file.kind = "legacy" -> [data |-> migrate(data, file), loaded |-> TRUE]
      [] file.kind = "versioned" -> [data |-> file.data, loaded |-> TRUE]

\* Config.get_default_profile
get_default_profile(data) == data.default

\* Config.get_credentials(profile) on a loaded Config; profile "" is None
get_credentials(data, profile) ==
    LET name == IF profile = "" THEN get_default_profile(data) ELSE profile
    IN  IF name = "" \/ name \notin ProfileNames THEN NoCredentials
        ELSE IF ~data.profiles[name].set THEN NoCredentials
        ELSE data.profiles[name]

ConfigInit ==
    /\ config_file = AbsentFile
    /\ config_data = ConfigDefaults
    /\ config_loaded = FALSE
    /\ last_config = [op |-> "none"]

\* a CLI process starts: config = Config(), with some config.yaml on disk
config_start ==
    /\ \E file \in StartFiles : config_file' = file
    /\ config_data' = ConfigDefaults
    /\ config_loaded' = FALSE
    /\ last_config' = [op |-> "none"]

\* config.load()
Config_load ==
    /\ LET l == load(config_data, config_file)
       IN  /\ config_data' = l.data
           /\ config_loaded' = l.loaded
           /\ last_config' = [op |-> "load", file |-> config_file, profile |-> "",
                              default |-> get_default_profile(l.data),
                              credentials |-> get_credentials(l.data, "")]
    /\ UNCHANGED config_file

\* config.get_credentials(profile): loads first when not loaded
Config_get_credentials ==
    /\ \E profile \in {""} \cup ProfileNames :
        LET l == IF config_loaded THEN [data |-> config_data, loaded |-> TRUE]
                 ELSE load(config_data, config_file)
        IN  /\ config_data' = l.data
            /\ config_loaded' = l.loaded
            /\ last_config' = [op |-> "get_credentials",
                               file |-> IF config_loaded THEN AbsentFile ELSE config_file,
                               profile |-> profile,
                               default |-> get_default_profile(l.data),
                               credentials |-> get_credentials(l.data, profile)]
    /\ UNCHANGED config_file

\* config.set_credentials(model, api_key, profile): loads first when not
\* loaded, sets the profile, makes it the default when there is none, saves
\* (a failed save is logged only)
Config_set_credentials ==
    /\ \E a \in Accounts, profile \in ProfileNames, save_ok \in BOOLEAN :
        LET l == IF config_loaded THEN [data |-> config_data, loaded |-> TRUE]
                 ELSE load(config_data, config_file)
            with == [l.data EXCEPT !.profiles[profile] = Credentials(a[1], a[2])]
            data == IF get_default_profile(with) = ""
                    THEN [with EXCEPT !.default = profile] ELSE with
        IN  /\ config_data' = data
            /\ config_loaded' = l.loaded
            /\ config_file' = IF save_ok THEN VersionedFile(data) ELSE config_file
    /\ UNCHANGED last_config

\* config.set_default_profile(name): ConfigError for an unknown profile,
\* else the default is set and saved
Config_set_default_profile ==
    /\ \E name \in ProfileNames, save_ok \in BOOLEAN :
        IF ~config_data.profiles[name].set
        THEN UNCHANGED <<config_data, config_file>>
        ELSE /\ config_data' = [config_data EXCEPT !.default = name]
             /\ config_file' = IF save_ok THEN VersionedFile(config_data')
                               ELSE config_file
    /\ UNCHANGED <<config_loaded, last_config>>

ConfigNext ==
    \/ config_start
    \/ Config_load
    \/ Config_get_credentials
    \/ Config_set_credentials
    \/ Config_set_default_profile

configVars == <<config_file, config_data, config_loaded, last_config>>

(***************************************************************************)
(* Properties of the configuration                                         *)
(***************************************************************************)
\* C16: loading a file that has only the legacy model and api_key keys gives
\* a Config whose default profile is "default" and whose get_credentials()
\* is exactly that model and api_key
C16_LegacyConfigMigrates ==
    (last_config.op # "none" /\ last_config.profile = ""
        /\ last_config.file.kind = "legacy") =>
        /\ last_config.default = "default"
        /\ last_config.credentials =
              Credentials(last_config.file.model, last_config.file.api_key)

\* get_credentials() on a Config not yet loaded has read a legacy file and
\* returned its pair
C16_Witness ==
    /\ last_config.op = "get_credentials"
    /\ last_config.profile = ""
    /\ last_config.file = LegacyFile("claude", "key2")
    /\ last_config.credentials = Credentials("claude", "key2")
    /\ config_data.default = "default"

(***************************************************************************)
(* Command batch: handle_command_result (ui/display.py, cli/prompts.py)    *)
(***************************************************************************)
\* the sentence the model answers with when it cannot produce a command
Sentinel == "Request cannot be fulfilled."

\* a response of n command lines; a text is a sequence of pieces: command
\* text, the sentence above, a space, a line break
RECURSIVE CommandLines(_)
CommandLines(n) ==
    IF n = 0 THEN <<>>
    ELSE IF n = 1 THEN <<"ls">>
    ELSE CommandLines(n - 1) \o <<"\n", "ls">>

\* the responses handed to handle_command_result
Results ==
    { CommandLines(n) : n \in 0..MaxCommands }
        \cup { <<Sentinel>>, <<Sentinel, " ", "ls">>, <<"ls", "\n", Sentinel>> }

\* str.splitlines()
RECURSIVE splitlines(_)
splitlines(s) ==
    IF s = <<>> THEN <<>>
    ELSE IF \E i \in 1..Len(s) : s[i] = "\n"
    THEN LET i == CHOOSE i \in 1..Len(s) :
                    s[i] = "\n" /\ \A j \in 1..(i - 1) : s[j] # "\n"
         IN  <<SubSeq(s, 1, i - 1)>> \o splitlines(SubSeq(s, i + 1, Len(s)))
    ELSE <<s>>

\* CommandParser.process (split_commands): a response that contains the
\* sentence is returned whole as the one element and marked is_error; any
\* other response is split into its stripped, non-empty lines
CommandParser_process(input_data) ==
    IF \E i \in 1..Len(input_data) : input_data[i] = Sentinel
    THEN [commands |-> <<input_data>>, is_error |-> TRUE]
    ELSE [commands |->
              SelectSeq([k \in 1..Len(splitlines(input_data)) |->
                            Strip(splitlines(input_data)[k])],
                        LAMBDA cmd : cmd # <<>>),
          is_error |-> FALSE]

\* handle_command_result: commands[0] == "Request cannot be fulfilled."
is_error_response(commands) == commands[1] = <<Sentinel>>

\* lines the user may type at the action prompt ("" is the Enter key)
ActionLines == {"", "copy", "run"}

\* lines the user may type at the continue prompt
ConfirmLines == {"", "y", "n"}

\* outcomes of os.system(command): exit code 0, another exit code, an exception
SystemOutcomes == {"zero", "nonzero", "raise"}

\* choices: "copy" when the clipboard is available, and "run"
choices(clipboard) == IF clipboard THEN {"copy", "run"} ELSE {"run"}

\* default = "copy" if CLIPBOARD_AVAILABLE else choices[0]
default(clipboard) == IF clipboard THEN "copy" ELSE "run"

\* Prompt.ask(..., choices, default): Enter gives the default
Prompt_ask(line, clipboard) == IF line = "" THEN default(clipboard) ELSE line

\* Confirm.ask(..., default=True): Enter and "y" are yes, "n" is no
Confirm_ask(line) == IF line = "" THEN TRUE ELSE line = "y"

\* the loop going on to the next command whatever the answer is
breaks_NeverStops(answer) == FALSE

\* if not Confirm.ask(...): break
breaks(answer) == ~answer

\* no answer "no" given at the continue prompt
NotRefused == 0 - 1

BatchInit ==
    /\ batch_pc = "returned"
    /\ batch_n = 0
    /\ batch_fallback = FALSE
    /\ batch_i = 0
    /\ CLIPBOARD_AVAILABLE = FALSE
    /\ offered = {}
    /\ commands_run = <<>>
    /\ asked = {}
    /\ refused = NotRefused

\* the for-loop reaches command i: its action prompt is shown
Offer(i) ==
    /\ batch_pc' = "action"
    /\ batch_i' = i
    /\ offered' = offered \cup {i}

\* the for-loop is over, or it is left: the function returns
Leave ==
    /\ batch_pc' = "returned"
    /\ UNCHANGED <<batch_i, offered>>

\* handle_command_result up to its first action prompt: the result is split
\* into commands; no command, or the error response, returns at once; the
\* parameters of each command are prompted for (an exception there leaves
\* the function); then the action loop starts at command 0
handle_command_result ==
    /\ batch_pc = "returned"
    /\ \E result \in Results, prompted_ok, clipboard \in BOOLEAN :
        LET parsed == CommandParser_process(result)
            n == Len(parsed.commands)
        IN  /\ batch_n' = n
            /\ batch_fallback' = parsed.is_error
            /\ CLIPBOARD_AVAILABLE' = clipboard
            /\ commands_run' = <<>>
            /\ asked' = {}
            /\ refused' = NotRefused
            /\ IF n = 0 \/ is_error_response(parsed.commands) \/ ~prompted_ok
               THEN /\ batch_pc' = "returned"
                    /\ batch_i' = 0
                    /\ offered' = {}
               ELSE /\ batch_pc' = "action"
                    /\ batch_i' = 0
                    /\ offered' = {0}

\* the action prompt is answered with "copy": the command is copied (a failure
\* is printed) and the loop moves on
action_copy ==
    /\ batch_pc = "action"
    /\ \E line \in ActionLines :
        /\ Prompt_ask(line, CLIPBOARD_AVAILABLE) \in choices(CLIPBOARD_AVAILABLE)
        /\ Prompt_ask(line, CLIPBOARD_AVAILABLE) = "copy"
    /\ IF batch_i + 1 < batch_n THEN Offer(batch_i + 1) ELSE Leave
    /\ UNCHANGED <<batch_n, batch_fallback, CLIPBOARD_AVAILABLE, commands_run,
                   asked, refused>>

\* the action prompt is answered with "run": os.system runs the command (an
\* exception is printed); after a command that is not the last one the
\* continue prompt is shown
action_run ==
    /\ batch_pc = "action"
    /\ \E line \in ActionLines :
        /\ Prompt_ask(line, CLIPBOARD_AVAILABLE) \in choices(CLIPBOARD_AVAILABLE)
        /\ Prompt_ask(line, CLIPBOARD_AVAILABLE) = "run"
    /\ \E outcome \in SystemOutcomes : commands_run' = (batch_i :> outcome) @@ commands_run
    /\ IF batch_i < batch_n - 1
       THEN /\ batch_pc' = "continue"
            /\ asked' = asked \cup {batch_i}
            /\ UNCHANGED <<batch_i, offered>>
       ELSE /\ Leave
            /\ UNCHANGED asked
    /\ UNCHANGED <<batch_n, batch_fallback, CLIPBOARD_AVAILABLE, refused>>

\* the continue prompt is answered: "no" breaks the loop
confirm_continue ==
    /\ batch_pc = "continue"
    /\ \E line \in ConfirmLines :
        LET answer == Confirm_ask(line)
        IN  /\ refused' = IF answer THEN refused ELSE batch_i
            /\ IF breaks(answer) THEN Leave ELSE Offer(batch_i + 1)
    /\ UNCHANGED <<batch_n, batch_fallback, CLIPBOARD_AVAILABLE, commands_run,
                   asked>>

\* Ctrl+C at either prompt: KeyboardInterrupt leaves the function
prompt_interrupt ==
    /\ batch_pc \in {"action", "continue"}
    /\ Leave
    /\ UNCHANGED <<batch_n, batch_fallback, CLIPBOARD_AVAILABLE, commands_run,
                   asked, refused>>

BatchNext ==
    \/ handle_command_result
    \/ action_copy
    \/ action_run
    \/ confirm_continue
    \/ prompt_interrupt

batchVars == <<batch_pc, batch_n, batch_fallback, batch_i,
               CLIPBOARD_AVAILABLE, offered, commands_run,
               asked, refused>>

\* C18: in a multi-command batch, after a command that is not the last one
\* is run the user is asked whether to continue; once the user has answered
\* no, the function has returned and no later command of the batch has been
\* offered an action or executed
C18_NoEndsTheBatch ==
    /\ \A i \in DOMAIN commands_run : i + 1 < batch_n => i \in asked
    /\ refused # NotRefused =>
        /\ batch_pc = "returned"
        /\ \A j \in (refused + 1)..(batch_n - 1) :
            j \notin offered /\ j \notin DOMAIN commands_run

\* C30: whenever the command splitter classifies a response as the fallback
\* (it found the sentence and returned the response as one unsplit element)
\* the display flow prints it and stops: no action menu is shown and nothing
\* is executed
C30_FallbackStopsTheFlow ==
    batch_fallback =>
        /\ batch_pc = "returned"
        /\ offered = {}
        /\ commands_run = <<>>

\* C18 witness: the first of three commands was run and the user answered no
C18_Witness ==
    /\ batch_n = 3
    /\ refused = 0
    /\ 0 \in DOMAIN commands_run
    /\ 0 \in asked
    /\ batch_pc = "returned"

(***************************************************************************)
(* gRPC clients: BackendClient, InfraGPTClient (backendapi/client.py,      *)
(* infragptapi/client.py; the two classes differ in names only)            *)
(***************************************************************************)
\* None, for the _channel and _client fields; channels are numbered from 1
NoChannel == 0

\* outcomes of the SendReply RPC once connected: response.success, a response
\* with success false (RequestError), grpc.RpcError (ConnectionError), any
\* other exception (the client's base error)
RpcOutcomes == {"success", "RequestError", "RpcError", "Exception"}

\* close() that forgets the channel without closing it
close_ForgetOnly(c) == [c EXCEPT !.channel = NoChannel, !.stub = NoChannel]

\* close(): if a channel is held it is closed and both fields are reset
close(c) ==
    IF c.channel # NoChannel
    THEN [channel |-> NoChannel, stub |-> NoChannel,
          open |-> c.open \ {c.channel}]
    ELSE c

\* _ensure_connected: with no stub, grpc.insecure_channel builds a channel
\* (or raises: ConnectionError) and the stub is bound to it; the stub
\* constructor only binds method names to the channel and does not fail
ensure_connected(c, fresh, channel_ok) ==
    IF c.stub # NoChannel THEN [state |-> c, raised |-> FALSE]
    ELSE IF channel_ok
    THEN [state |-> [channel |-> fresh, stub |-> fresh,
                     open |-> c.open \cup {fresh}],
          raised |-> FALSE]
    ELSE [state |-> c, raised |-> TRUE]

\* the client's fields and the channels open in the process
ClientState == [channel |-> grpc_channel, stub |-> grpc_stub,
                open |-> open_channels]

SetClient(c) ==
    /\ grpc_channel' = c.channel
    /\ grpc_stub' = c.stub
    /\ open_channels' = c.open

ClientInit ==
    /\ client_pc = "outside"
    /\ grpc_channel = NoChannel
    /\ grpc_stub = NoChannel
    /\ open_channels = {}
    /\ channels_created = 0
    /\ last_exit = "none"
    /\ last_send = "none"

\* with client: __enter__ returns the client
client_enter ==
    /\ client_pc \in {"outside", "exited"}
    /\ client_pc' = "inside"
    /\ last_exit' = "none"
    /\ last_send' = "none"
    /\ UNCHANGED <<grpc_channel, grpc_stub, open_channels, channels_created>>

\* send_reply inside the block: connect if needed, send; an exception is
\* either handled by the block's body or leaves the block, and then
\* __exit__ closes the client
client_send_reply ==
    /\ client_pc = "inside"
    /\ grpc_stub # NoChannel \/ channels_created < MaxChannels
    /\ \E channel_ok, handled \in BOOLEAN, rpc \in RpcOutcomes :
        LET fresh == channels_created + 1
            conn == ensure_connected(ClientState, fresh, channel_ok)
            outcome == IF conn.raised THEN "ConnectionError" ELSE rpc
            leaves == outcome # "success" /\ ~handled
        IN  /\ channels_created' =
                IF grpc_stub = NoChannel THEN fresh ELSE channels_created
            /\ last_send' = outcome
            /\ IF leaves
               THEN /\ SetClient(close(conn.state))
                    /\ client_pc' = "exited"
                    /\ last_exit' = "send_reply"
               ELSE /\ SetClient(conn.state)
                    /\ UNCHANGED <<client_pc, last_exit>>

\* close() called by the block's body
client_close ==
    /\ client_pc = "inside"
    /\ SetClient(close(ClientState))
    /\ UNCHANGED <<client_pc, channels_created, last_exit, last_send>>

\* the block ends, normally or by an exception of its own: __exit__ closes
client_exit ==
    /\ client_pc = "inside"
    /\ \E how \in {"normal", "exception"} : last_exit' = how
    /\ SetClient(close(ClientState))
    /\ client_pc' = "exited"
    /\ UNCHANGED <<channels_created, last_send>>

ClientNext ==
    \/ client_enter
    \/ client_send_reply
    \/ client_close
    \/ client_exit

clientVars == <<client_pc, grpc_channel, grpc_stub, open_channels,
                channels_created, last_exit, last_send>>

Roles == {"system", "user", "assistant", "tool"}

\* a message with its content; contents are numbered in the order of adding
Message(role, content) ==
    [role |-> role, content |-> content, tool_calls |-> {},
     tool_call_id |-> IF role = "tool" THEN content ELSE 0]

\* ConversationContext.get_context_messages: the system message if there is
\* one, then one dict per message of the window, in order; tool_call_id and
\* name are set for a 'tool' message that has an id; tool_calls is left out
get_context_messages(system_message, msgs) ==
    LET system_dict ==
            IF system_message = <<>> THEN <<>>
            ELSE << [role |-> "system", content |-> system_message[1].content,
                     tool_call_id |-> 0, name |-> ""] >>
        message_dict(msg) ==
            IF msg.tool_call_id # 0 /\ msg.role = "tool"
            THEN [role |-> msg.role, content |-> msg.content,
                  tool_call_id |-> msg.tool_call_id,
                  name |-> "execute_shell_command"]
            ELSE [role |-> msg.role, content |-> msg.content,
                  tool_call_id |-> 0, name |-> ""]
    IN  system_dict \o [i \in 1..Len(msgs) |-> message_dict(msgs[i])]

\* after ModernShellAgent.__init__: ConversationContext() and the system
\* prompt added by _initialize_system_message
ContextInit ==
    /\ ctx_messages = <<>>
    /\ ctx_system_message = << Message("system", 0) >>
    /\ ctx_added = <<>>

\* ConversationContext.add_message(role, content)
context_add_message ==
    /\ Len(ctx_added) < MaxAdds
    /\ \E role \in Roles :
        LET message == Message(role, Len(ctx_added) + 1)
        IN  /\ ctx_added' = Append(ctx_added, message)
            /\ IF role = "system"
               THEN /\ ctx_system_message' = << message >>
                    /\ UNCHANGED ctx_messages
               ELSE /\ ctx_messages' = add_message(ctx_messages, message)
                    /\ UNCHANGED ctx_system_message

\* ConversationContext.clear(): the window is emptied
context_clear ==
    /\ ctx_messages # <<>>
    /\ ctx_messages' = <<>>
    /\ ctx_added' = SelectSeq(ctx_added, LAMBDA m : m.role = "system")
    /\ UNCHANGED ctx_system_message

ContextNext ==
    \/ context_add_message
    \/ context_clear

contextVars == <<ctx_messages, ctx_system_message, ctx_added>>

\* the non-system messages added since the window was last cleared
AddedNonSystem == SelectSeq(ctx_added, LAMBDA m : m.role # "system")

\* C22: after any sequence of add_message calls the context materialized
\* for the model is the system message first, followed by at most
\* max_messages non-system messages, which are exactly the most recently
\* added non-system messages in the order they were added
C22_SystemFirstThenNewestWindow ==
    LET context == get_context_messages(ctx_system_message, ctx_messages)
        window == SubSeq(context, 2, Len(context))
        newest == LastN(AddedNonSystem, max_messages)
    IN  /\ Len(context) >= 1
        /\ context[1].role = "system"
        /\ Len(window) <= max_messages
        /\ Len(window) = Len(newest)
        /\ \A i \in 1..Len(window) :
            /\ window[i].role = newest[i].role
            /\ window[i].content = newest[i].content

\* C22 witness: more than max_messages non-system messages were added
C22_Witness ==
    /\ Len(AddedNonSystem) > max_messages
    /\ Len(ctx_messages) = max_messages

(***************************************************************************)
(* History data and its redaction (cli history.py sanitize_sensitive_data, *)
(* log_interaction; utils/history.py HistoryManager.add_entry)             *)
(***************************************************************************)
\* keys of the data handed to a logger, and how they are spelled
DataKeys == {"model", "user_input", "TOKEN"}

Spelling(key) ==
    CASE key = "model" -> <<"m", "o", "d", "e", "l">>
      [] key = "user_input" ->
            <<"u", "s", "e", "r", "_", "i", "n", "p", "u", "t">>
      [] key = "TOKEN" -> <<"T", "O", "K", "E", "N">>

\* string values: a plain one and an OpenAI-style key (sk- and 20 or more
\* letters and digits)
DataValues == {"ls -la", "sk-aaaaaaaaaaaaaaaaaaaa"}

\* the data objects: flat dicts over some of the keys
DataObjects == UNION { [keys -> DataValues] : keys \in SUBSET DataKeys }

\* sensitive_keywords
sensitive_keywords ==
    { <<"p", "a", "s", "s", "w", "o", "r", "d">>,
      <<"a", "p", "i", "_", "k", "e", "y">>,
      <<"a", "p", "i", "k", "e", "y">>,
      <<"t", "o", "k", "e", "n">>,
      <<"s", "e", "c", "r", "e", "t">>,
      <<"c", "r", "e", "d", "e", "n", "t", "i", "a", "l">>,
      <<"a", "u", "t", "h">>,
      <<"a", "c", "c", "e", "s", "s", "_", "k", "e", "y">>,
      <<"a", "c", "c", "e", "s", "s", "_", "t", "o", "k", "e", "n">>,
      <<"p", "r", "i", "v", "a", "t", "e", "_", "k", "e", "y">> }

\* any(sensitive in key_lower for sensitive in sensitive_keywords)
is_sensitive_key(key) ==
    \E sensitive \in sensitive_keywords :
        Contains(Lower(Spelling(key)), sensitive)

\* the regex substitutions on a string value: of the modelled values only
\* the sk- key matches a pattern
sanitize_string(value) ==
    IF value = "sk-aaaaaaaaaaaaaaaaaaaa" THEN "sk-***REDACTED***" ELSE value

\* sanitize_sensitive_data on a dict: sensitive keys are left out, the
\* other values are sanitized
sanitize_sensitive_data(data) ==
    [key \in { k \in DOMAIN data : ~is_sensitive_key(k) } |->
        sanitize_string(data[key])]

\* cli history.py log_interaction: the data of the entry written
log_interaction_data(interaction_type, data) ==
    LET sanitized_data == sanitize_sensitive_data(data)
        allowed_fields == INTERACTION_FIELD_ALLOWLIST(interaction_type)
    IN  IF allowed_fields # {}
        THEN [k \in DOMAIN sanitized_data \cap allowed_fields |->
                 sanitized_data[k]]
        ELSE << >>

\* HistoryManager.add_entry: the data of the entry written
add_entry_data(interaction_type, data) == data

RedactInit == written_data = <<>>

\* log_interaction(interaction_type, data) appends its entry
write_log_interaction ==
    /\ Len(written_data) < MaxWrites
    /\ \E interaction_type \in {"agent_conversation_v2", "command_action"},
          data \in DataObjects :
        written_data' =
            Append(written_data,
                   [logger |-> "log_interaction", given |-> data,
                    data |-> log_interaction_data(interaction_type, data)])

\* HistoryManager.add_entry(interaction_type, data) appends its entry
write_add_entry ==
    /\ Len(written_data) < MaxWrites
    /\ \E data \in DataObjects :
        written_data' =
            Append(written_data,
                   [logger |-> "add_entry", given |-> data,
                    data |-> add_entry_data("command_generation", data)])

RedactNext ==
    \/ write_log_interaction
    \/ write_add_entry

redactVars == <<written_data>>

\* C26: every entry written to the history file, by either logger, holds
\* data that has passed the sensitive-field redaction: no sensitive key is
\* left and no value still matches a secret pattern
C26_WrittenDataIsRedacted ==
    \A i \in 1..Len(written_data) :
        LET data == written_data[i].data
        IN  /\ \A key \in DOMAIN data : ~is_sensitive_key(key)
            /\ \A key \in DOMAIN data : sanitize_string(data[key]) = data[key]

(***************************************************************************)
(* Specifications                                                          *)
(***************************************************************************)
vars == <<shellVars, serviceVars, toolsVars, containerVars, historyVars,
        cacheVars, configVars, batchVars, clientVars, contextVars,
        redactVars>>

Init ==
    /\ ShellInit
    /\ ServiceInit
    /\ ToolsInit
    /\ ContainerInit
    /\ HistoryInit
    /\ CacheInit
    /\ ConfigInit
    /\ BatchInit
    /\ ClientInit
    /\ ContextInit
    /\ RedactInit

\* the interactive shell agent
SpecShell ==
    Init /\ [][ShellNext /\ UNCHANGED
        <<serviceVars, toolsVars, containerVars, historyVars, cacheVars,
          configVars, batchVars, clientVars, contextVars, redactVars>>]_vars

\* the Agent Service RPC path and the AgentSystem
SpecService ==
    Init /\ [][ServiceNext /\ UNCHANGED
        <<shellVars, toolsVars, containerVars, historyVars, cacheVars,
          configVars, batchVars, clientVars, contextVars, redactVars>>]_vars

\* the ToolRegistry
SpecTools ==
    Init /\ [][ToolsNext /\ UNCHANGED
        <<shellVars, serviceVars, containerVars, historyVars, cacheVars,
          configVars, batchVars, clientVars, contextVars, redactVars>>]_vars

\* the sandbox container executor
SpecContainer ==
    Init /\ [][ContainerNext /\ UNCHANGED
        <<shellVars, serviceVars, toolsVars, historyVars, cacheVars,
          configVars, batchVars, clientVars, contextVars, redactVars>>]_vars

\* the history log
SpecHistory ==
    Init /\ [][HistoryNext /\ UNCHANGED
        <<shellVars, serviceVars, toolsVars, containerVars, cacheVars,
          configVars, batchVars, clientVars, contextVars, redactVars>>]_vars

\* the LLM response cache
SpecCache ==
    Init /\ [][CacheNext /\ UNCHANGED
        <<shellVars, serviceVars, toolsVars, containerVars, historyVars,
          configVars, batchVars, clientVars, contextVars, redactVars>>]_vars

\* the configuration store
SpecConfig ==
    Init /\ [][ConfigNext /\ UNCHANGED
        <<shellVars, serviceVars, toolsVars, containerVars, historyVars,
          cacheVars, batchVars, clientVars, contextVars, redactVars>>]_vars

\* the command batch of handle_command_result
SpecBatch ==
    Init /\ [][BatchNext /\ UNCHANGED
        <<shellVars, serviceVars, toolsVars, containerVars, historyVars,
          cacheVars, configVars, clientVars, contextVars, redactVars>>]_vars

\* a gRPC client used in with-blocks
SpecClient ==
    Init /\ [][ClientNext /\ UNCHANGED
        <<shellVars, serviceVars, toolsVars, containerVars, historyVars,
          cacheVars, configVars, batchVars, contextVars, redactVars>>]_vars

\* a ConversationContext under add_message
SpecContext ==
    Init /\ [][ContextNext /\ UNCHANGED
        <<shellVars, serviceVars, toolsVars, containerVars, historyVars,
          cacheVars, configVars, batchVars, clientVars, redactVars>>]_vars

\* the data written by the two history loggers
SpecRedact ==
    Init /\ [][RedactNext /\ UNCHANGED
        <<shellVars, serviceVars, toolsVars, containerVars, historyVars,
          cacheVars, configVars, batchVars, clientVars, contextVars>>]_vars

Next ==
    \/ ShellNext /\ UNCHANGED
         <<serviceVars, toolsVars, containerVars, historyVars, cacheVars,
           configVars, batchVars, clientVars, contextVars, redactVars>>
    \/ ServiceNext /\ UNCHANGED
         <<shellVars, toolsVars, containerVars, historyVars, cacheVars,
           configVars, batchVars, clientVars, contextVars, redactVars>>
    \/ ToolsNext /\ UNCHANGED
         <<shellVars, serviceVars, containerVars, historyVars, cacheVars,
           configVars, batchVars, clientVars, contextVars, redactVars>>
    \/ ContainerNext /\ UNCHANGED
         <<shellVars, serviceVars, toolsVars, historyVars, cacheVars,
           configVars, batchVars, clientVars, contextVars, redactVars>>
    \/ HistoryNext /\ UNCHANGED
         <<shellVars, serviceVars, toolsVars, containerVars, cacheVars,
           configVars, batchVars, clientVars, contextVars, redactVars>>
    \/ CacheNext /\ UNCHANGED
         <<shellVars, serviceVars, toolsVars, containerVars, historyVars,
           configVars, batchVars, clientVars, contextVars, redactVars>>
    \/ ConfigNext /\ UNCHANGED
         <<shellVars, serviceVars, toolsVars, containerVars, historyVars,
           cacheVars, batchVars, clientVars, contextVars, redactVars>>
    \/ BatchNext /\ UNCHANGED
         <<shellVars, serviceVars, toolsVars, containerVars, historyVars,
           cacheVars, configVars, clientVars, contextVars, redactVars>>
    \/ ClientNext /\ UNCHANGED
         <<shellVars, serviceVars, toolsVars, containerVars, historyVars,
           cacheVars, configVars, batchVars, contextVars, redactVars>>
    \/ ContextNext /\ UNCHANGED
         <<shellVars, serviceVars, toolsVars, containerVars, historyVars,
           cacheVars, configVars, batchVars, clientVars, redactVars>>
    \/ RedactNext /\ UNCHANGED
         <<shellVars, serviceVars, toolsVars, containerVars, historyVars,
           cacheVars, configVars, batchVars, clientVars, contextVars>>

Spec == Init /\ [][Next]_vars

====
